---- MODULE Spec2Model ----
(***************************************************************************)
(* qllm-lib as state machines.  The conversation reducer: the store        *)
(* mapping ConversationId -> Conversation that a caller threads through    *)
(* conversationReducer, one dispatch per step (Spec), the same action      *)
(* applied twice (SpecDet), export followed by import (SpecTrip) and a     *)
(* store with a dispatch queue and a reader (SpecQueue).  The provider     *)
(* adapters OpenAIProvider, GoogleProvider and AnthropicProvider: one call *)
(* at a time, from the call to its result, its error or the last chunk of  *)
(* its stream (SpecLLM, SpecLLMFair).                                      *)
(***************************************************************************)
EXTENDS Integers, Sequences, FiniteSets, TLC

VARIABLES
  state,     \* Map<ConversationId, Conversation> currently held by the store
  nextUuid,  \* number of the next value uuidv4() returns
  clock,     \* the last value new Date() returned
  last,      \* the last dispatched action and how the reducer call ended
  steps,     \* number of actions dispatched so far
  alt,       \* outcome of the same action on the same input in a second call
  queue,     \* actions callers have dispatched that the store has not applied
  dispatched, \* every action dispatched so far, in dispatch order
  applied,   \* per applied action: the draws, the outcome, the mapping kept
  seen,      \* the snapshots a reader holds, in the order it took them
  request,   \* the adapter call in progress: provider, method, model, backend
  pc,        \* where that call is
  pending,   \* chunks the open stream has still to yield
  chunks,    \* chunks the consumer has received from the stream
  outcome,   \* how the call ended for its caller
  backendCalls, \* backend requests the call has made
  sent,      \* what the backend was asked, once the call has asked it
  environment, \* process.env: the credential variables the adapters read
  constructed, \* the last adapter constructor call and how it ended
  registry,  \* the provider registry: per name, the adapter and its instance
  lookup,    \* the last registry lookup and how it ended
  availableModels, \* this.availableModels of the GoogleProvider instance
  refresh    \* where the initializeModels call of its constructor is

\* What a store with a dispatch queue adds to the state.
storeVars == <<queue, dispatched, applied, seen>>

\* One call of a provider adapter.
llmVars == <<request, pc, pending, chunks, outcome, backendCalls, sent>>

\* The process the adapters are constructed in.
hostVars == <<environment, constructed, registry, lookup>>

\* The model catalogue of the GoogleProvider instance.
googleVars == <<availableModels, refresh>>

DEFAULT_GOOGLE_MODEL == "gemini-default"

\* The keys of ALL_GOOGLE_MODELS, which ./models defines: the default model
\* and one more stand for them.
ALL_GOOGLE_MODELS == {DEFAULT_GOOGLE_MODEL, "gemini-other"}

\* The conversation store.
reducerVars == <<state, nextUuid, clock, last, steps, alt>>

vars == <<state, nextUuid, clock, last, steps, alt, storeVars, llmVars, hostVars, googleVars>>

----------------------------------------------------------------------------
(* Bounds *)

MaxClock == 1    \* largest value new Date() returns
MaxSteps == 3    \* actions dispatched in one run
MaxDetSteps == 2 \* actions dispatched in one run that calls the reducer twice
MaxDispatches == 3 \* actions callers dispatch in one run of the queued store
MaxReads == 2    \* snapshots a reader takes in one run of the queued store
MaxTokens == 5   \* pieces a response text is put together from

----------------------------------------------------------------------------
(* JavaScript helpers *)

\* An object without own properties: {} (also what spreading undefined adds).
Empty == [k \in {} |-> 0]

\* Object spread {...a, ...b}: b's own properties override a's.
Merge(a, b) ==
  [k \in (DOMAIN a) \cup (DOMAIN b) |-> IF k \in DOMAIN b THEN b[k] ELSE a[k]]

\* Truthiness of a string operand of || and if (...).
Truthy(s) == s # ""

Range(seq) == {seq[i] : i \in 1..Len(seq)}

\* new Map(m).set(k, v)
MapSet(m, k, v) == [x \in (DOMAIN m) \cup {k} |-> IF x = k THEN v ELSE m[x]]

\* new Map(m) followed by delete(k)
MapDelete(m, k) == [x \in (DOMAIN m) \ {k} |-> m[x]]

\* The n-th value returned by uuidv4(): distinct numbers give distinct strings.
uuidv4(n) == "u" \o ToString(n)

\* Every value uuidv4() has returned so far.
Issued == {uuidv4(n) : n \in 1..(nextUuid - 1)}

----------------------------------------------------------------------------
(* Outcome of one reducer call.  error = "none": the call returned `state`. *)
(* Otherwise it threw `error`.  `input` is the argument mapping as the call *)
(* left it; uuids/dates count the uuidv4() and new Date() calls made.       *)

Returned(input, out, nu, nd) ==
  [error |-> "none", state |-> out, input |-> input, uuids |-> nu, dates |-> nd]

Thrown(input, e) ==
  [error |-> e, state |-> input, input |-> input, uuids |-> 0, dates |-> 0]

----------------------------------------------------------------------------
(* case 'CREATE_CONVERSATION' *)

\* A CREATE_CONVERSATION that attributes the initial message to the last
\* listed provider instead of the first.
CreateConversation_LastProvider(s, payload, env) ==
  LET id == env.uuids[1]
      now == env.dates[1]
      meta == IF "metadata" \in DOMAIN payload THEN payload.metadata ELSE Empty
      providerIds ==
        IF "providerIds" \in DOMAIN payload THEN payload.providerIds ELSE <<>>
      title ==
        IF "title" \in DOMAIN meta /\ Truthy(meta.title)
        THEN meta.title ELSE "Conversation " \o id
      description ==
        IF "description" \in DOMAIN meta /\ Truthy(meta.description)
        THEN meta.description ELSE ""
      conversation ==
        [id |-> id,
         messages |-> <<>>,
         metadata |-> Merge([createdAt |-> now, updatedAt |-> now,
                             title |-> title, description |-> description],
                            meta),
         activeProviders |-> Range(providerIds)]
      hasInitial ==
        "initialMessage" \in DOMAIN payload /\ Truthy(payload.initialMessage)
      message ==
        [id |-> env.uuids[2],
         role |-> "user",
         content |-> [type |-> "text", text |-> payload.initialMessage],
         timestamp |-> now,
         providerId |-> IF Len(providerIds) > 0
                        THEN providerIds[Len(providerIds)] ELSE "",
         options |-> Empty]
  IN  IF hasInitial
      THEN Returned(s, MapSet(s, id, [conversation EXCEPT !.messages = <<message>>]), 2, 1)
      ELSE Returned(s, MapSet(s, id, conversation), 1, 1)

CreateConversation(s, payload, env) ==
  LET id == env.uuids[1]
      now == env.dates[1]
      meta == IF "metadata" \in DOMAIN payload THEN payload.metadata ELSE Empty
      providerIds ==
        IF "providerIds" \in DOMAIN payload THEN payload.providerIds ELSE <<>>
      title ==
        IF "title" \in DOMAIN meta /\ Truthy(meta.title)
        THEN meta.title ELSE "Conversation " \o id
      description ==
        IF "description" \in DOMAIN meta /\ Truthy(meta.description)
        THEN meta.description ELSE ""
      conversation ==
        [id |-> id,
         messages |-> <<>>,
         metadata |-> Merge([createdAt |-> now, updatedAt |-> now,
                             title |-> title, description |-> description],
                            meta),
         activeProviders |-> Range(providerIds)]
      hasInitial ==
        "initialMessage" \in DOMAIN payload /\ Truthy(payload.initialMessage)
      message ==
        [id |-> env.uuids[2],
         role |-> "user",
         content |-> [type |-> "text", text |-> payload.initialMessage],
         timestamp |-> now,
         providerId |-> IF Len(providerIds) > 0 /\ Truthy(providerIds[1])
                        THEN providerIds[1] ELSE "",
         options |-> Empty]
  IN  IF hasInitial
      THEN Returned(s, MapSet(s, id, [conversation EXCEPT !.messages = <<message>>]), 2, 1)
      ELSE Returned(s, MapSet(s, id, conversation), 1, 1)

----------------------------------------------------------------------------
(* case 'UPDATE_CONVERSATION' *)

\* An UPDATE_CONVERSATION that stamps createdAt from the clock as well.
UpdateConversation_StampsCreatedAt(s, payload, env) ==
  LET id == payload.id
      updates == payload.updates
  IN  IF id \notin DOMAIN s
      THEN Thrown(s, "ConversationNotFoundError")
      ELSE LET conversation == s[id]
               um == IF "metadata" \in DOMAIN updates
                     THEN updates.metadata ELSE Empty
               updatedConversation ==
                 Merge(Merge(conversation, updates),
                       [metadata |-> Merge(Merge(conversation.metadata, um),
                                           [createdAt |-> env.dates[1],
                                            updatedAt |-> env.dates[1]])])
           IN  Returned(s, MapSet(s, id, updatedConversation), 0, 1)

\* An UPDATE_CONVERSATION that takes the metadata of the updates in place of
\* the conversation's.
UpdateConversation_MetadataReplaced(s, payload, env) ==
  LET id == payload.id
      updates == payload.updates
  IN  IF id \notin DOMAIN s
      THEN Thrown(s, "ConversationNotFoundError")
      ELSE LET conversation == s[id]
               um == IF "metadata" \in DOMAIN updates
                     THEN updates.metadata ELSE conversation.metadata
               updatedConversation ==
                 Merge(Merge(conversation, updates),
                       [metadata |-> Merge(um, [updatedAt |-> env.dates[1]])])
           IN  Returned(s, MapSet(s, id, updatedConversation), 0, 1)

UpdateConversation(s, payload, env) ==
  LET id == payload.id
      updates == payload.updates
  IN  IF id \notin DOMAIN s
      THEN Thrown(s, "ConversationNotFoundError")
      ELSE LET conversation == s[id]
               um == IF "metadata" \in DOMAIN updates
                     THEN updates.metadata ELSE Empty
               updatedConversation ==
                 Merge(Merge(conversation, updates),
                       [metadata |-> Merge(Merge(conversation.metadata, um),
                                           [updatedAt |-> env.dates[1]])])
           IN  Returned(s, MapSet(s, id, updatedConversation), 0, 1)

(* case 'DELETE_CONVERSATION' *)

\* A DELETE_CONVERSATION that calls state.delete(id) on the mapping it was
\* given and returns a copy of it.
DeleteConversation_InPlace(s, payload, env) ==
  Returned(MapDelete(s, payload), MapDelete(s, payload), 0, 0)

\* A DELETE_CONVERSATION that throws for an id the mapping does not have.
DeleteConversation_AbsentThrows(s, payload, env) ==
  IF payload \notin DOMAIN s
  THEN Thrown(s, "ConversationNotFoundError")
  ELSE Returned(s, MapDelete(s, payload), 0, 0)

DeleteConversation(s, payload, env) ==
  Returned(s, MapDelete(s, payload), 0, 0)

(* case 'ADD_MESSAGE' *)

\* An ADD_MESSAGE that spreads the payload message after the generated id
\* and timestamp, so a caller's id and timestamp win.
AddMessage_CallerWins(s, payload, env) ==
  LET id == payload.id
      message == payload.message
  IN  IF id \notin DOMAIN s
      THEN Thrown(s, "ConversationNotFoundError")
      ELSE LET conversation == s[id]
               newMessage ==
                 Merge([id |-> env.uuids[1], timestamp |-> env.dates[1]], message)
               updatedConversation ==
                 Merge(conversation,
                       [messages |-> Append(conversation.messages, newMessage),
                        activeProviders |->
                          conversation.activeProviders \cup {message.providerId},
                        metadata |-> Merge(conversation.metadata,
                                           [updatedAt |-> env.dates[2]])])
           IN  Returned(s, MapSet(s, id, updatedConversation), 1, 2)

AddMessage(s, payload, env) ==
  LET id == payload.id
      message == payload.message
  IN  IF id \notin DOMAIN s
      THEN Thrown(s, "ConversationNotFoundError")
      ELSE LET conversation == s[id]
               newMessage ==
                 Merge(message, [id |-> env.uuids[1], timestamp |-> env.dates[1]])
               updatedConversation ==
                 Merge(conversation,
                       [messages |-> Append(conversation.messages, newMessage),
                        activeProviders |->
                          conversation.activeProviders \cup {message.providerId},
                        metadata |-> Merge(conversation.metadata,
                                           [updatedAt |-> env.dates[2]])])
           IN  Returned(s, MapSet(s, id, updatedConversation), 1, 2)

(* case 'SET_METADATA' *)

\* A SET_METADATA that spreads the payload after the refreshed updatedAt, so
\* an updatedAt carried by the payload wins.
SetMetadata_PayloadWins(s, payload, env) ==
  LET id == payload.id
      metadata == payload.metadata
  IN  IF id \notin DOMAIN s
      THEN Thrown(s, "ConversationNotFoundError")
      ELSE LET conversation == s[id]
               updatedConversation ==
                 Merge(conversation,
                       [metadata |-> Merge(Merge(conversation.metadata,
                                                 [updatedAt |-> env.dates[1]]),
                                           metadata)])
           IN  Returned(s, MapSet(s, id, updatedConversation), 0, 1)

SetMetadata(s, payload, env) ==
  LET id == payload.id
      metadata == payload.metadata
  IN  IF id \notin DOMAIN s
      THEN Thrown(s, "ConversationNotFoundError")
      ELSE LET conversation == s[id]
               updatedConversation ==
                 Merge(conversation,
                       [metadata |-> Merge(Merge(conversation.metadata, metadata),
                                           [updatedAt |-> env.dates[1]])])
           IN  Returned(s, MapSet(s, id, updatedConversation), 0, 1)

(* case 'ADD_PROVIDER' *)

\* An ADD_PROVIDER that calls add() on the stored Set and set() on the
\* argument Map instead of on copies: the input mapping is changed in place.
AddProvider_InPlace(s, payload, env) ==
  LET id == payload.id
      providerId == payload.providerId
  IN  IF id \notin DOMAIN s
      THEN Thrown(s, "ConversationNotFoundError")
      ELSE LET conversation == s[id]
               updatedConversation ==
                 Merge(conversation,
                       [activeProviders |->
                          conversation.activeProviders \cup {providerId},
                        metadata |-> Merge(conversation.metadata,
                                           [updatedAt |-> env.dates[1]])])
               out == MapSet(s, id, updatedConversation)
           IN  Returned(out, out, 0, 1)

\* An ADD_PROVIDER that takes a provider that is active out of the set.
AddProvider_Toggles(s, payload, env) ==
  LET id == payload.id
      providerId == payload.providerId
  IN  IF id \notin DOMAIN s
      THEN Thrown(s, "ConversationNotFoundError")
      ELSE LET conversation == s[id]
               updatedConversation ==
                 Merge(conversation,
                       [activeProviders |->
                          IF providerId \in conversation.activeProviders
                          THEN conversation.activeProviders \ {providerId}
                          ELSE conversation.activeProviders \cup {providerId},
                        metadata |-> Merge(conversation.metadata,
                                           [updatedAt |-> env.dates[1]])])
           IN  Returned(s, MapSet(s, id, updatedConversation), 0, 1)

AddProvider(s, payload, env) ==
  LET id == payload.id
      providerId == payload.providerId
  IN  IF id \notin DOMAIN s
      THEN Thrown(s, "ConversationNotFoundError")
      ELSE LET conversation == s[id]
               updatedConversation ==
                 Merge(conversation,
                       [activeProviders |->
                          conversation.activeProviders \cup {providerId},
                        metadata |-> Merge(conversation.metadata,
                                           [updatedAt |-> env.dates[1]])])
           IN  Returned(s, MapSet(s, id, updatedConversation), 0, 1)

(* case 'REMOVE_PROVIDER' *)

\* A REMOVE_PROVIDER without the has(providerId) check: Set.delete of an
\* absent member is a no-op and updatedAt is refreshed all the same.
RemoveProvider_NoCheck(s, payload, env) ==
  LET id == payload.id
      providerId == payload.providerId
  IN  IF id \notin DOMAIN s
      THEN Thrown(s, "ConversationNotFoundError")
      ELSE LET conversation == s[id]
               updatedConversation ==
                 Merge(conversation,
                       [activeProviders |-> conversation.activeProviders \ {providerId},
                        metadata |-> Merge(conversation.metadata,
                                           [updatedAt |-> env.dates[1]])])
           IN  Returned(s, MapSet(s, id, updatedConversation), 0, 1)

RemoveProvider(s, payload, env) ==
  LET id == payload.id
      providerId == payload.providerId
  IN  IF id \notin DOMAIN s
      THEN Thrown(s, "ConversationNotFoundError")
      ELSE IF providerId \notin s[id].activeProviders
      THEN Thrown(s, "InvalidConversationOperationError")
      ELSE LET conversation == s[id]
               updatedProviders == conversation.activeProviders \ {providerId}
               updatedConversation ==
                 Merge(conversation,
                       [activeProviders |-> updatedProviders,
                        metadata |-> Merge(conversation.metadata,
                                           [updatedAt |-> env.dates[1]])])
           IN  Returned(s, MapSet(s, id, updatedConversation), 0, 1)

(* case 'CLEAR_HISTORY' *)

\* A CLEAR_HISTORY that inserts an empty conversation when the id is absent
\* instead of throwing.
ClearHistory_Upsert(s, payload, env) ==
  LET conversation ==
        IF payload \in DOMAIN s THEN s[payload]
        ELSE [id |-> payload, messages |-> <<>>, metadata |-> Empty,
              activeProviders |-> {}]
      updatedConversation ==
        Merge(conversation,
              [messages |-> <<>>,
               metadata |-> Merge(conversation.metadata,
                                  [updatedAt |-> env.dates[1]])])
  IN  Returned(s, MapSet(s, payload, updatedConversation), 0, 1)

\* A CLEAR_HISTORY that starts the conversation afresh: no messages, no
\* active providers.
ClearHistory_ResetsProviders(s, payload, env) ==
  IF payload \notin DOMAIN s
  THEN Thrown(s, "ConversationNotFoundError")
  ELSE LET conversation == s[payload]
           updatedConversation ==
             Merge(conversation,
                   [messages |-> <<>>,
                    activeProviders |-> {},
                    metadata |-> Merge(conversation.metadata,
                                       [updatedAt |-> env.dates[1]])])
       IN  Returned(s, MapSet(s, payload, updatedConversation), 0, 1)

ClearHistory(s, payload, env) ==
  IF payload \notin DOMAIN s
  THEN Thrown(s, "ConversationNotFoundError")
  ELSE LET conversation == s[payload]
           updatedConversation ==
             Merge(conversation,
                   [messages |-> <<>>,
                    metadata |-> Merge(conversation.metadata,
                                       [updatedAt |-> env.dates[1]])])
       IN  Returned(s, MapSet(s, payload, updatedConversation), 0, 1)

----------------------------------------------------------------------------
(* JSON.stringify(conversation), the export the specification describes:    *)
(* a Date becomes its ISO string, a Set becomes the object {} because it    *)
(* has no enumerable properties of its own.                                 *)

\* Date.prototype.toISOString(), the clock counting seconds from the epoch.
toISOString(t) == "1970-01-01T00:00:0" \o ToString(t) \o ".000Z"

\* The properties of obj, the Dates among them as their ISO strings.
StringifyDates(obj, dateFields) ==
  [k \in DOMAIN obj |-> IF k \in dateFields THEN toISOString(obj[k]) ELSE obj[k]]

JSONstringify(c) ==
  [syntax |-> "json",
   doc |-> [kind |-> "object",
            props |-> [id |-> [kind |-> "string", val |-> c.id],
                       messages |-> [kind |-> "array",
                                     val |-> [i \in DOMAIN c.messages |->
                                                StringifyDates(c.messages[i], {"timestamp"})]],
                       metadata |-> [kind |-> "object",
                                     val |-> StringifyDates(c.metadata, {"createdAt", "updatedAt"})],
                       activeProviders |-> [kind |-> "object", val |-> Empty]]]]

----------------------------------------------------------------------------
(* case 'IMPORT_CONVERSATION'                                               *)
(* A payload string is modelled by its syntax: either text JSON.parse       *)
(* rejects, or a JSON document.  Values carry the runtime kind that typeof, *)
(* Array.isArray and instanceof inspect: JSON.parse yields only the kinds   *)
(* "null", "string", "number", "array" and "object", never "Set".           *)

\* JSON.parse(text): a SyntaxError, or the value the document denotes.
JSONparse(text) ==
  IF text.syntax = "malformed"
  THEN [threw |-> TRUE, value |-> [kind |-> "undefined"],
        message |-> "Unexpected end of JSON input"]
  ELSE [threw |-> FALSE, value |-> text.doc, message |-> ""]

\* data.<name>: undefined when the object has no such property.
Prop(data, name) ==
  IF "props" \in DOMAIN data /\ name \in DOMAIN data.props
  THEN data.props[name] ELSE [kind |-> "undefined"]

\* typeof v === 'object'
TypeofObject(v) == v.kind \in {"object", "array", "null", "Set"}

\* Evaluating isValidConversation(data) throws a TypeError: the && chain
\* reads data.id of null once typeof null === 'object' let it through.
isValidConversationThrows(data) == data.kind = "null"

isValidConversation(data) ==
  /\ TypeofObject(data)
  /\ Prop(data, "id").kind = "string"
  /\ Prop(data, "messages").kind = "array"
  /\ TypeofObject(Prop(data, "metadata"))
  /\ Prop(data, "activeProviders").kind = "Set"

\* The parsed value read as the Conversation it is stored as.
AsConversation(data) ==
  [id |-> Prop(data, "id").val,
   messages |-> Prop(data, "messages").val,
   metadata |-> Prop(data, "metadata").val,
   activeProviders |-> Prop(data, "activeProviders").val]

\* throw new ConversationError(`Failed to import conversation: ${message}`)
ImportFailure(s, message) ==
  [error |-> "ConversationError", state |-> s, input |-> s, uuids |-> 0, dates |-> 0,
   message |-> "Failed to import conversation: " \o message]

\* The case without its try/catch: what JSON.parse or the validation throws
\* reaches the caller as it is.
ImportConversation_Unwrapped(s, payload, env) ==
  LET parsed == JSONparse(payload)
  IN  IF parsed.threw
      THEN [error |-> "SyntaxError", state |-> s, input |-> s, uuids |-> 0,
            dates |-> 0, message |-> parsed.message]
      ELSE IF isValidConversationThrows(parsed.value)
      THEN [error |-> "TypeError", state |-> s, input |-> s, uuids |-> 0,
            dates |-> 0, message |-> "Cannot read properties of null (reading 'id')"]
      ELSE IF ~isValidConversation(parsed.value)
      THEN [error |-> "Error", state |-> s, input |-> s, uuids |-> 0,
            dates |-> 0, message |-> "Invalid conversation data structure"]
      ELSE Returned(s, MapSet(s, Prop(parsed.value, "id").val,
                              AsConversation(parsed.value)), 0, 0)

ImportConversation(s, payload, env) ==
  LET parsed == JSONparse(payload)
  IN  IF parsed.threw
      THEN ImportFailure(s, parsed.message)
      ELSE IF isValidConversationThrows(parsed.value)
      THEN ImportFailure(s, "Cannot read properties of null (reading 'id')")
      ELSE IF ~isValidConversation(parsed.value)
      THEN ImportFailure(s, "Invalid conversation data structure")
      ELSE Returned(s, MapSet(s, Prop(parsed.value, "id").val,
                              AsConversation(parsed.value)), 0, 0)

----------------------------------------------------------------------------
(* The reducer: switch (action.type) *)

conversationReducer(s, action, env) ==
  CASE action.type = "CREATE_CONVERSATION" -> CreateConversation(s, action.payload, env)
    [] action.type = "UPDATE_CONVERSATION" -> UpdateConversation(s, action.payload, env)
    [] action.type = "DELETE_CONVERSATION" -> DeleteConversation(s, action.payload, env)
    [] action.type = "ADD_MESSAGE" -> AddMessage(s, action.payload, env)
    [] action.type = "SET_METADATA" -> SetMetadata(s, action.payload, env)
    [] action.type = "ADD_PROVIDER" -> AddProvider(s, action.payload, env)
    [] action.type = "REMOVE_PROVIDER" -> RemoveProvider(s, action.payload, env)
    [] action.type = "CLEAR_HISTORY" -> ClearHistory(s, action.payload, env)
    [] action.type = "IMPORT_CONVERSATION" -> ImportConversation(s, action.payload, env)
    [] OTHER -> Returned(s, s, 0, 0)

----------------------------------------------------------------------------
(* What callers dispatch *)

Providers == {"openai", "google"}

\* A conversation id no uuidv4() call ever returns.
UnknownId == "no-such-conversation"

\* Ids a caller can address: every conversation in the store, and an id
\* that is in no store.
TargetIds == (DOMAIN state) \cup {UnknownId}

\* A Date later than any the clock reaches.
FutureDate == MaxClock + 1

\* Partial<ConversationMetadata> values carried by SET_METADATA.
MetaPayloads ==
  {[title |-> "Demo", updatedAt |-> 0], [createdAt |-> FutureDate]}

\* CreateConversationOptions: metadata?, providerIds?, initialMessage?
CreatePayloads ==
  {Empty,
   [metadata |-> [title |-> "Demo"]],
   [metadata |-> [title |-> ""], initialMessage |-> "Hi"],
   [metadata |-> [updatedAt |-> 0]],
   [providerIds |-> <<"openai">>, initialMessage |-> ""],
   [providerIds |-> <<"google", "openai">>, initialMessage |-> "Hi"]}

\* Omit<ConversationMessage, 'id'>, and an untyped caller's message that
\* carries an id and a timestamp of its own.
MessagePayloads ==
  {[role |-> "user", content |-> [type |-> "text", text |-> "Hi"],
    providerId |-> "openai", options |-> Empty],
   [role |-> "assistant", content |-> [type |-> "text", text |-> "Hello"],
    providerId |-> "google", options |-> Empty,
    id |-> "caller-message", timestamp |-> 0]}

\* A ConversationMessage built by a caller.
CallerMessage ==
  [id |-> "caller-message", role |-> "user",
   content |-> [type |-> "text", text |-> "Hi"],
   timestamp |-> 0, providerId |-> "openai", options |-> Empty]

\* Partial<Conversation> values carried by UPDATE_CONVERSATION.
UpdatePayloads ==
  {[metadata |-> [title |-> "Demo", updatedAt |-> 0]],
   [metadata |-> [createdAt |-> FutureDate]],
   [messages |-> <<CallerMessage, CallerMessage>>],
   [id |-> "caller-conversation"],
   [activeProviders |-> {"google"}]}

\* IMPORT_CONVERSATION payload strings: text that is no JSON, the documents
\* null and 7, objects whose id, messages or metadata is missing or of
\* another type, and a conversation whose active providers are a JSON array.
ImportPayloads ==
  {[syntax |-> "malformed"],
   [syntax |-> "json", doc |-> [kind |-> "null"]],
   [syntax |-> "json", doc |-> [kind |-> "number", val |-> 7]],
   [syntax |-> "json",
    doc |-> [kind |-> "object",
             props |-> [id |-> [kind |-> "number", val |-> 7],
                        messages |-> [kind |-> "array", val |-> <<>>],
                        metadata |-> [kind |-> "object",
                                      val |-> [title |-> "Demo", createdAt |-> toISOString(1),
                                               updatedAt |-> toISOString(0)]],
                        activeProviders |-> [kind |-> "array", val |-> <<"openai">>]]]],
   [syntax |-> "json",
    doc |-> [kind |-> "object",
             props |-> [id |-> [kind |-> "string", val |-> "imported"],
                        messages |-> [kind |-> "string", val |-> "none"],
                        metadata |-> [kind |-> "object",
                                      val |-> [title |-> "Demo", createdAt |-> toISOString(1),
                                               updatedAt |-> toISOString(0)]],
                        activeProviders |-> [kind |-> "array", val |-> <<"openai">>]]]],
   [syntax |-> "json",
    doc |-> [kind |-> "object",
             props |-> [id |-> [kind |-> "string", val |-> "imported"],
                        messages |-> [kind |-> "array", val |-> <<>>],
                        activeProviders |-> [kind |-> "array", val |-> <<"openai">>]]]],
   [syntax |-> "json",
    doc |-> [kind |-> "object",
             props |-> [id |-> [kind |-> "string", val |-> "imported"],
                        messages |-> [kind |-> "array", val |-> <<>>],
                        metadata |-> [kind |-> "object",
                                      val |-> [title |-> "Demo", createdAt |-> toISOString(1),
                                               updatedAt |-> toISOString(0)]],
                        activeProviders |-> [kind |-> "array", val |-> <<"openai">>]]]]}

----------------------------------------------------------------------------
(* One dispatch: the store calls the reducer on its mapping and keeps the   *)
(* mapping the call returns; when the call throws it keeps the one it had.  *)

\* The values the uuidv4() and new Date() calls of one reducer call return.
Env(dates) == [uuids |-> <<uuidv4(nextUuid), uuidv4(nextUuid + 1)>>, dates |-> dates]

\* The part of env a call consumed.
Consumed(env, r) ==
  [uuids |-> SubSeq(env.uuids, 1, r.uuids), dates |-> SubSeq(env.dates, 1, r.dates)]

Dispatch(action, env) ==
  LET r == conversationReducer(state, action, env)
  IN  /\ steps < MaxSteps
      /\ steps' = steps + 1
      /\ state' = IF r.error = "none" THEN r.state ELSE r.input
      /\ nextUuid' = nextUuid + r.uuids
      /\ clock' = IF r.dates = 0 THEN clock ELSE env.dates[r.dates]
      /\ last' = [action |-> action, error |-> r.error, env |-> Consumed(env, r)]
      /\ UNCHANGED <<alt, storeVars, llmVars, hostVars, googleVars>>

\* new Date() never runs backwards: it returns the time of the previous
\* call or a later one.
Later(t) == {u \in {t, t + 1} : u <= MaxClock}
Dates1 == {<<t>> : t \in Later(clock)}
Dates2 == UNION {{<<t1, t2>> : t2 \in Later(t1)} : t1 \in Later(clock)}

CreateConversationStep ==
  \E p \in CreatePayloads, d \in Dates1 :
    Dispatch([type |-> "CREATE_CONVERSATION", payload |-> p], Env(d))

UpdateConversationStep ==
  \E id \in TargetIds, u \in UpdatePayloads, d \in Dates1 :
    Dispatch([type |-> "UPDATE_CONVERSATION", payload |-> [id |-> id, updates |-> u]], Env(d))

DeleteConversationStep ==
  \E id \in TargetIds :
    Dispatch([type |-> "DELETE_CONVERSATION", payload |-> id], Env(<<>>))

AddMessageStep ==
  \E id \in TargetIds, m \in MessagePayloads, d \in Dates2 :
    Dispatch([type |-> "ADD_MESSAGE", payload |-> [id |-> id, message |-> m]], Env(d))

SetMetadataStep ==
  \E id \in TargetIds, m \in MetaPayloads, d \in Dates1 :
    Dispatch([type |-> "SET_METADATA", payload |-> [id |-> id, metadata |-> m]], Env(d))

AddProviderStep ==
  \E id \in TargetIds, p \in Providers, d \in Dates1 :
    Dispatch([type |-> "ADD_PROVIDER", payload |-> [id |-> id, providerId |-> p]], Env(d))

RemoveProviderStep ==
  \E id \in TargetIds, p \in Providers, d \in Dates1 :
    Dispatch([type |-> "REMOVE_PROVIDER", payload |-> [id |-> id, providerId |-> p]], Env(d))

ClearHistoryStep ==
  \E id \in TargetIds, d \in Dates1 :
    Dispatch([type |-> "CLEAR_HISTORY", payload |-> id], Env(d))

ImportConversationStep ==
  \E p \in ImportPayloads :
    Dispatch([type |-> "IMPORT_CONVERSATION", payload |-> p], Env(<<>>))

NoAction == [action |-> [type |-> "none"], error |-> "none", env |-> [uuids |-> <<>>, dates |-> <<>>]]

Init ==
  /\ state = Empty
  /\ nextUuid = 1
  /\ clock = 0
  /\ last = NoAction
  /\ steps = 0
  /\ alt = [error |-> "none", state |-> Empty, env |-> NoAction.env]
  /\ queue = <<>>
  /\ dispatched = <<>>
  /\ applied = <<>>
  /\ seen = <<>>
  /\ request = [provider |-> "none"]
  /\ pc = "idle"
  /\ pending = <<>>
  /\ chunks = <<>>
  /\ outcome = [error |-> "none", provider |-> "", message |-> "", result |-> [k \in {} |-> 0]]
  /\ backendCalls = 0
  /\ sent = <<>>
  /\ environment = [OPENAI_API_KEY |-> <<>>, GOOGLE_API_KEY |-> <<>>]
  /\ constructed = [provider |-> "none"]
  /\ registry = [name \in {"openai", "anthropic", "google"} |->
                  [adapter |-> CASE name = "openai" -> "OpenAI"
                                 [] name = "anthropic" -> "Anthropic"
                                 [] name = "google" -> "Google",
                   instance |-> <<>>]]
  /\ lookup = [name |-> "", error |-> "none", message |-> "", instance |-> <<>>]
  /\ availableModels = ALL_GOOGLE_MODELS
  /\ refresh = "idle"

----------------------------------------------------------------------------
(* The same action applied twice to the same input mapping: the store keeps *)
(* the outcome of the first call, `alt` records the outcome of the second,  *)
(* whose uuidv4() and new Date() calls return values of their own.          *)

\* What the second call's uuidv4() returns: the same values or other ones.
OtherUuids ==
  {<<uuidv4(nextUuid), uuidv4(nextUuid + 1)>>,
   <<uuidv4(nextUuid + 2), uuidv4(nextUuid + 3)>>}

DispatchTwice(action, env, env2) ==
  LET r == conversationReducer(state, action, env)
      r2 == conversationReducer(state, action, env2)
  IN  /\ steps < MaxDetSteps
      /\ steps' = steps + 1
      /\ state' = IF r.error = "none" THEN r.state ELSE r.input
      /\ nextUuid' = nextUuid + r.uuids
      /\ clock' = IF r.dates = 0 THEN clock ELSE env.dates[r.dates]
      /\ last' = [action |-> action, error |-> r.error, env |-> Consumed(env, r)]
      /\ alt' = [error |-> r2.error,
                 state |-> IF r2.error = "none" THEN r2.state ELSE r2.input,
                 env |-> Consumed(env2, r2)]
      /\ UNCHANGED <<storeVars, llmVars, hostVars, googleVars>>

\* Both calls of one action, each with draws of its own.
Twice(action) ==
  \E d \in Dates2, u2 \in OtherUuids, t2 \in Later(clock) :
    DispatchTwice(action, Env(d), [uuids |-> u2, dates |-> <<t2, t2>>])

ApplyTwiceStep ==
  \/ \E p \in CreatePayloads :
       Twice([type |-> "CREATE_CONVERSATION", payload |-> p])
  \/ \E id \in TargetIds, u \in UpdatePayloads :
       Twice([type |-> "UPDATE_CONVERSATION", payload |-> [id |-> id, updates |-> u]])
  \/ \E id \in TargetIds :
       Twice([type |-> "DELETE_CONVERSATION", payload |-> id])
  \/ \E id \in TargetIds, m \in MessagePayloads :
       Twice([type |-> "ADD_MESSAGE", payload |-> [id |-> id, message |-> m]])
  \/ \E id \in TargetIds, m \in MetaPayloads :
       Twice([type |-> "SET_METADATA", payload |-> [id |-> id, metadata |-> m]])
  \/ \E id \in TargetIds, p \in Providers :
       Twice([type |-> "ADD_PROVIDER", payload |-> [id |-> id, providerId |-> p]])
  \/ \E id \in TargetIds, p \in Providers :
       Twice([type |-> "REMOVE_PROVIDER", payload |-> [id |-> id, providerId |-> p]])
  \/ \E id \in TargetIds :
       Twice([type |-> "CLEAR_HISTORY", payload |-> id])
  \/ \E p \in ImportPayloads :
       Twice([type |-> "IMPORT_CONVERSATION", payload |-> p])

NextDet == ApplyTwiceStep

SpecDet == Init /\ [][NextDet]_vars

Next ==
  \/ CreateConversationStep
  \/ UpdateConversationStep
  \/ DeleteConversationStep
  \/ AddMessageStep
  \/ SetMetadataStep
  \/ AddProviderStep
  \/ RemoveProviderStep
  \/ ClearHistoryStep
  \/ ImportConversationStep

Spec == Init /\ [][Next]_vars

\* Callers keep the ids they were given: an action names the id of a
\* conversation that has been deleted.
DeletedIdStep ==
  \E id \in Issued \ DOMAIN state, d \in {<<clock, clock>>} :
    \/ Dispatch([type |-> "DELETE_CONVERSATION", payload |-> id], Env(<<>>))
    \/ Dispatch([type |-> "UPDATE_CONVERSATION",
                 payload |-> [id |-> id, updates |-> [metadata |-> [title |-> "Demo"]]]], Env(d))
    \/ Dispatch([type |-> "ADD_MESSAGE",
                 payload |-> [id |-> id, message |-> CallerMessage]], Env(d))
    \/ Dispatch([type |-> "SET_METADATA",
                 payload |-> [id |-> id, metadata |-> [title |-> "Demo"]]], Env(d))
    \/ \E type \in {"ADD_PROVIDER", "REMOVE_PROVIDER"} :
         Dispatch([type |-> type, payload |-> [id |-> id, providerId |-> "openai"]], Env(d))
    \/ Dispatch([type |-> "CLEAR_HISTORY", payload |-> id], Env(d))

NextDelete == Next \/ DeletedIdStep

SpecDelete == Init /\ [][NextDelete]_vars

----------------------------------------------------------------------------
(* Export and import: a conversation of the store is serialized and the     *)
(* text is imported into the store it came from; `alt` records the outcome  *)
(* of importing the same text into an empty store.                          *)

ExportImportStep ==
  \E id \in DOMAIN state :
    LET action == [type |-> "IMPORT_CONVERSATION", payload |-> JSONstringify(state[id])]
        r == conversationReducer(state, action, Env(<<>>))
        r2 == conversationReducer(Empty, action, Env(<<>>))
    IN  /\ steps < MaxSteps
        /\ steps' = steps + 1
        /\ state' = IF r.error = "none" THEN r.state ELSE r.input
        /\ last' = [action |-> action, error |-> r.error, env |-> Consumed(Env(<<>>), r)]
        /\ alt' = [error |-> r2.error,
                   state |-> IF r2.error = "none" THEN r2.state ELSE r2.input,
                   env |-> Consumed(Env(<<>>), r2)]
        /\ UNCHANGED <<nextUuid, clock, storeVars, llmVars, hostVars, googleVars>>

NextTrip == Next \/ ExportImportStep

SpecTrip == Init /\ [][NextTrip]_vars

----------------------------------------------------------------------------
(* A store with a dispatch queue: callers dispatch concurrently, which puts *)
(* their actions on the queue in some order; the store takes one action at  *)
(* a time off the queue, calls the reducer on its mapping and replaces the  *)
(* mapping by the one returned.  A reader takes the mapping the store holds *)
(* at the moment it looks and keeps the reference.                          *)

Callers == {"a", "b"}

CallerDispatch(c, action) ==
  /\ Len(dispatched) < MaxDispatches
  /\ queue' = Append(queue, [caller |-> c, action |-> action])
  /\ dispatched' = Append(dispatched, [caller |-> c, action |-> action])
  /\ UNCHANGED <<state, nextUuid, clock, last, steps, alt, applied, seen, llmVars, hostVars, googleVars>>

\* Caller a creates and deletes conversations; caller b adds messages and
\* providers to the conversations it finds in the store, or to one that is
\* not there.
CallerDispatchStep ==
  \/ CallerDispatch("a", [type |-> "CREATE_CONVERSATION",
                          payload |-> [providerIds |-> <<"openai">>, initialMessage |-> "Hi"]])
  \/ \E id \in DOMAIN state :
       CallerDispatch("a", [type |-> "DELETE_CONVERSATION", payload |-> id])
  \/ \E id \in TargetIds :
       CallerDispatch("b", [type |-> "ADD_MESSAGE",
                            payload |-> [id |-> id, message |-> CallerMessage]])
  \/ \E id \in DOMAIN state :
       CallerDispatch("b", [type |-> "ADD_PROVIDER",
                            payload |-> [id |-> id, providerId |-> "google"]])

\* The reader's references after a reducer call: a snapshot taken since the
\* store last replaced its mapping is the object the call was given, and is
\* whatever the call left of it.
AfterCall(r) ==
  [i \in DOMAIN seen |->
     IF seen[i].current
     THEN [seen[i] EXCEPT !.snapshot = r.input, !.current = (r.error # "none")]
     ELSE seen[i]]

StoreApplyStep ==
  /\ queue # <<>>
  /\ \E t \in Later(clock) :
       LET env == Env(<<t, t>>)
           action == Head(queue).action
           r == conversationReducer(state, action, env)
           kept == IF r.error = "none" THEN r.state ELSE r.input
       IN  /\ queue' = Tail(queue)
           /\ state' = kept
           /\ nextUuid' = nextUuid + r.uuids
           /\ clock' = IF r.dates = 0 THEN clock ELSE env.dates[r.dates]
           /\ last' = [action |-> action, error |-> r.error, env |-> Consumed(env, r)]
           /\ applied' = Append(applied, [env |-> env, error |-> r.error, snapshot |-> kept])
           /\ seen' = AfterCall(r)
           /\ UNCHANGED <<steps, alt, dispatched, llmVars, hostVars, googleVars>>

ReaderObserveStep ==
  /\ Len(seen) < MaxReads
  /\ seen' = Append(seen, [at |-> Len(applied), snapshot |-> state, current |-> TRUE])
  /\ UNCHANGED <<state, nextUuid, clock, last, steps, alt, queue, dispatched, applied, llmVars, hostVars, googleVars>>

NextQueue == CallerDispatchStep \/ StoreApplyStep \/ ReaderObserveStep

SpecQueue == Init /\ [][NextQueue]_vars

----------------------------------------------------------------------------
(* Provider adapters: OpenAIProvider, GoogleProvider, AnthropicProvider.    *)
(* A nullable value is <<>> for null or undefined and <<v>> for the value v.*)

Null == <<>>
Some(v) == <<v>>

\* x || fallback, for a nullable string x
OrElse(x, fallback) == IF x # Null /\ Truthy(x[1]) THEN x[1] ELSE fallback

\* String.prototype.includes
Includes(message, part) ==
  \E i \in 1..(Len(message) - Len(part) + 1) :
    SubSeq(message, i, i + Len(part) - 1) = part

\* What an adapter call ends in for its caller.
Resolved(result) == [error |-> "none", provider |-> "", message |-> "", result |-> result]
Rejected(e, provider, message) ==
  [error |-> e, provider |-> provider, message |-> message, result |-> Empty]

\* A value thrown at a catch site: an instance of the SDK's APIError, of
\* Error, or something that is no Error at all; status 0 is no status.
ErrorValue(class, status, message) ==
  [class |-> class, status |-> status, message |-> message]

\* OpenAIProvider.handleError
OpenAIhandleError(error) ==
  IF error.class = "APIError"
  THEN IF error.status = 401
       THEN Rejected("AuthenticationError", "OpenAI", "Authentication failed with OpenAI")
       ELSE IF error.status = 429
       THEN Rejected("RateLimitError", "OpenAI", "Rate limit exceeded for OpenAI")
       ELSE Rejected("InvalidRequestError", "OpenAI", "OpenAI request failed: " \o error.message)
  ELSE IF error.class = "Error"
  THEN Rejected("InvalidRequestError", "OpenAI", "Unexpected error: " \o error.message)
  ELSE Rejected("InvalidRequestError", "OpenAI", "Unknown error occurred: " \o error.message)

\* GoogleProvider.handleError
GooglehandleError(error) ==
  IF error.class # "value" /\ Includes(error.message, "API key")
  THEN Rejected("AuthenticationError", "Google", error.message)
  ELSE IF error.class # "value"
          /\ (Includes(error.message, "quota") \/ Includes(error.message, "rate limit"))
  THEN Rejected("RateLimitError", "Google", error.message)
  ELSE IF error.class # "value"
          /\ (Includes(error.message, "not supported") \/ Includes(error.message, "invalid"))
  THEN Rejected("InvalidRequestError", "Google", error.message)
  ELSE Rejected("Error", "", "Google provider error: " \o
                 (IF error.class = "value" THEN "" ELSE "Error: ") \o error.message)

\* AnthropicProvider.handleError
AnthropichandleError(error) ==
  IF error.status = 401
  THEN Rejected("AuthenticationError", "Anthropic", "Authentication failed with Anthropic")
  ELSE IF error.status = 429
  THEN Rejected("RateLimitError", "Anthropic", "Rate limit exceeded for Anthropic")
  ELSE Rejected("InvalidRequestError", "Anthropic", "Anthropic request failed: " \o error.message)

handleError(provider, error) ==
  CASE provider = "OpenAI" -> OpenAIhandleError(error)
    [] provider = "Google" -> GooglehandleError(error)
    [] provider = "Anthropic" -> AnthropichandleError(error)

\* Backend failures: an HTTP error status with the message of its body
\* (no message when the body is no JSON), a connection that fails, and a
\* rejection with a value that is no Error.
Failures ==
  {[kind |-> "http", status |-> 401,
    body |-> "Request had invalid authentication credentials."],
   [kind |-> "http", status |-> 401, body |-> "API key not valid."],
   [kind |-> "http", status |-> 429,
    body |-> "Resource has been exhausted (e.g. check quota)."],
   [kind |-> "http", status |-> 429, body |-> ""],
   [kind |-> "http", status |-> 500, body |-> "An internal error has occurred."],
   [kind |-> "network", status |-> 0, body |-> "fetch failed"],
   [kind |-> "value", status |-> 0, body |-> "aborted"]}

\* What the SDK call (openai, @google/generative-ai, bedrock-sdk) throws at
\* the adapter for a backend failure.
SdkThrows(provider, f) ==
  CASE f.kind = "value" -> ErrorValue("value", 0, f.body)
    [] f.kind = "network" ->
         ErrorValue(IF provider = "OpenAI" THEN "APIError" ELSE "Error", 0, f.body)
    [] provider = "Google" ->
         ErrorValue("Error", 0, "[GoogleGenerativeAI Error]: [" \o ToString(f.status)
                                \o "] " \o f.body)
    [] OTHER -> ErrorValue("APIError", f.status, f.body)

\* JSON.stringify(errorData): errorData is null when the body is no JSON.
ErrorDetails(body) ==
  IF body = "" THEN "null" ELSE "{\"error\":{\"message\":\"" \o body \o "\"}}"

\* A streamChatCompletion of GoogleProvider that leaves the body of a
\* response that is not ok out of the Error it throws.
FetchThrows_WithoutDetails(f) ==
  CASE f.kind = "value" -> ErrorValue("value", 0, f.body)
    [] f.kind = "network" -> ErrorValue("Error", 0, f.body)
    [] OTHER -> ErrorValue("Error", 0, "HTTP error! status: " \o ToString(f.status))

\* What reaches the catch of GoogleProvider.streamChatCompletion for a
\* backend failure: fetch rejects, or the response is not ok and the adapter
\* throws the Error it builds from the status and the body.
FetchThrows(f) ==
  CASE f.kind = "value" -> ErrorValue("value", 0, f.body)
    [] f.kind = "network" -> ErrorValue("Error", 0, f.body)
    [] OTHER -> ErrorValue("Error", 0, "HTTP error! status: " \o ToString(f.status)
                                       \o ", details: " \o ErrorDetails(f.body))

DEFAULT_MODEL == "gpt-4o-mini"
DEFAULT_MODEL_ID == "anthropic.claude-3-haiku-20240307-v1:0"

\* options.model || <the adapter's default>
ResolveModel(req) ==
  OrElse(req.model,
         CASE req.provider = "OpenAI" -> DEFAULT_MODEL
           [] req.provider = "Google" -> DEFAULT_GOOGLE_MODEL
           [] req.provider = "Anthropic" -> DEFAULT_MODEL_ID)

\* The part of a call that runs before it first waits for the backend:
\* GoogleProvider refuses a model that is not in availableModels, and its
\* listModels answers from availableModels without a backend call.
BeforeBackend(req) ==
  IF req.provider = "Google" /\ req.method = "listModels"
  THEN [settled |-> TRUE, outcome |-> Resolved([models |-> availableModels])]
  ELSE IF req.provider = "Google" /\ ResolveModel(req) \notin availableModels
  THEN [settled |-> TRUE,
        outcome |-> GooglehandleError(
                      ErrorValue("Error", 0, "Model " \o ResolveModel(req)
                                             \o " not supported by Google"))]
  ELSE [settled |-> FALSE, outcome |-> Resolved(Empty)]

\* createSystemMessage of OpenAIProvider
createSystemMessage(systemMessageText) ==
  [role |-> "system", text |-> systemMessageText]

\* withSystemMessage of OpenAIProvider
withSystemMessage(options, messages) ==
  IF options.systemMessage # Null /\ Len(options.systemMessage[1]) > 0
  THEN <<createSystemMessage(options.systemMessage[1])>> \o messages
  ELSE messages

\* formatMessages of OpenAIProvider: role, and content: text || ''
formatMessages(messages) ==
  [i \in DOMAIN messages |->
     [role |-> messages[i].role, text |-> OrElse(Some(messages[i].text), "")]]

\* messages.map(text of the content).join('\n\n')
RECURSIVE convertMessagesToPrompt(_)
convertMessagesToPrompt(messages) ==
  IF messages = <<>> THEN ""
  ELSE IF Len(messages) = 1 THEN messages[1].text
  ELSE messages[1].text \o "\n\n" \o convertMessagesToPrompt(Tail(messages))

\* text.trim() === ''
IsBlank(text) ==
  \A i \in 1..Len(text) : SubSeq(text, i, i) \in {" ", "\n", "\t"}

\* The contents of GoogleProvider.streamChatCompletion's request body
GoogleContents(messages) ==
  LET mapped == [i \in DOMAIN messages |->
                   [role |-> IF messages[i].role = "user" THEN "user" ELSE "model",
                    text |-> messages[i].text]]
      kept(m) == ~IsBlank(m.text)
  IN  SelectSeq(mapped, kept)

\* What a backend is asked: a system instruction of its own, messages with
\* role and text, a prompt; Null where the request has no such part.
WireRequest(system, messages, prompt) ==
  [system |-> system, messages |-> messages, prompt |-> prompt]

\* The request a chat call makes to its backend.
BackendRequest(req) ==
  CASE req.method \notin {"generate", "stream"} -> WireRequest(Null, <<>>, Null)
    [] req.provider = "OpenAI" ->
         WireRequest(Null, formatMessages(withSystemMessage(req.options, req.messages)), Null)
    [] req.provider = "Google" /\ req.method = "generate" ->
         WireRequest(Null, <<>>, Some(convertMessagesToPrompt(req.messages)))
    [] req.provider = "Google" /\ req.method = "stream" ->
         WireRequest(Null, GoogleContents(req.messages), Null)
    [] req.provider = "Anthropic" ->
         WireRequest(req.options.systemMessage, req.messages, Null)

\* text.split(/(\s+)/): the runs of non-whitespace and of whitespace of text,
\* alternating, the first and the last one a run of non-whitespace that may
\* be empty.
IsSpace(c) == c \in {" ", "\n", "\t"}

RECURSIVE SplitFrom(_, _, _)
SplitFrom(text, i, runs) ==
  IF i > Len(text)
  THEN IF Len(runs) % 2 = 0 THEN Append(runs, "") ELSE runs
  ELSE LET c == SubSeq(text, i, i)
           inSeparator == Len(runs) % 2 = 0
       IN  IF IsSpace(c) = inSeparator
           THEN SplitFrom(text, i + 1, [runs EXCEPT ![Len(runs)] = @ \o c])
           ELSE SplitFrom(text, i + 1, Append(runs, c))

Split(text) == SplitFrom(text, 1, <<"">>)

\* A GoogleProvider stream that puts the finish reason on every chunk.
GoogleChunks_ReasonOnEveryChunk(model, data) ==
  LET words == Split(data.text[1])
  IN  [i \in 1..Len(words) |->
         [model |-> model, text |-> Some(words[i]),
          finishReason |-> Some(OrElse(data.finishReason, "stop"))]]
      \o <<[model |-> model, text |-> Some(""),
            finishReason |-> Some(OrElse(data.finishReason, "stop"))]>>

\* A GoogleProvider stream whose final chunk carries the backend's finish
\* reason as it is, without the 'stop' it falls back to.
GoogleChunks_NoFallbackReason(model, data) ==
  LET words == Split(data.text[1])
  IN  [i \in 1..Len(words) |->
         [model |-> model, text |-> Some(words[i]), finishReason |-> Null]]
      \o <<[model |-> model, text |-> Some(""), finishReason |-> data.finishReason]>>

\* The chunks GoogleProvider.streamChatCompletion yields for a response
\* with text: one per element of the split, and the final one.
GoogleChunks(model, data) ==
  LET words == Split(data.text[1])
  IN  [i \in 1..Len(words) |->
         [model |-> model, text |-> Some(words[i]), finishReason |-> Null]]
      \o <<[model |-> model, text |-> Some(""),
            finishReason |-> Some(OrElse(data.finishReason, "stop"))]>>

\* The chunks OpenAIProvider.streamChatCompletion yields: one per chunk of
\* the backend's stream.
OpenAIChunks(model, stream) ==
  [i \in DOMAIN stream |->
     [model |-> model,
      text |-> IF stream[i].content # Null /\ Truthy(stream[i].content[1])
               THEN stream[i].content ELSE Null,
      finishReason |-> stream[i].finish_reason]]

\* The strings AnthropicProvider.streamMessage yields: delta.text || '' of
\* every content_block_delta event.
AnthropicChunks(stream) ==
  [i \in DOMAIN stream |-> [text |-> Some(OrElse(stream[i].content, ""))]]

\* The characters \w matches, as far as response texts have them.
WordChars == {"a", "b", "c", "x", "y", "z", "0", "1", "_"}

\* String.prototype.trim
RECURSIVE trim(_)
trim(text) ==
  IF text = "" THEN ""
  ELSE IF IsSpace(SubSeq(text, 1, 1)) THEN trim(SubSeq(text, 2, Len(text)))
  ELSE IF IsSpace(SubSeq(text, Len(text), Len(text)))
       THEN trim(SubSeq(text, 1, Len(text) - 1))
  ELSE text

\* text has part at index i
HasAt(text, i, part) ==
  /\ i + Len(part) - 1 <= Len(text)
  /\ SubSeq(text, i, i + Len(part) - 1) = part

\* The index after the run of \w characters that starts at i.
RECURSIVE WordEnd(_, _)
WordEnd(text, i) ==
  IF i <= Len(text) /\ SubSeq(text, i, i) \in WordChars
  THEN WordEnd(text, i + 1) ELSE i

\* /<(\w+)>([\s\S]*?)<\/\1>/ tried at index i: the name, the shortest value
\* that the closing tag of the name follows, and the index after the match.
MatchAt(text, i) ==
  LET e == WordEnd(text, i + 1)
      name == SubSeq(text, i + 1, e - 1)
      closing == "</" \o name \o ">"
      ends == {j \in (e + 1)..Len(text) : HasAt(text, j, closing)}
  IN  IF HasAt(text, i, "<") /\ e > i + 1 /\ HasAt(text, e, ">") /\ ends # {}
      THEN LET j == CHOOSE k \in ends : \A l \in ends : k <= l
           IN  [found |-> TRUE, name |-> name, value |-> SubSeq(text, e + 1, j - 1),
                lastIndex |-> j + Len(closing)]
      ELSE [found |-> FALSE, name |-> "", value |-> "", lastIndex |-> i]

\* The while loop over tagPattern.exec(text): the scan goes on from the end
\* of a match, or from the next index where there is none.
RECURSIVE exec(_, _, _)
exec(text, i, variables) ==
  IF i > Len(text) THEN variables
  ELSE LET match == MatchAt(text, i)
       IN  IF match.found
           THEN exec(text, match.lastIndex,
                     MapSet(variables, match.name, trim(match.value)))
           ELSE exec(text, i + 1, variables)

\* An extraction that puts the text as it is under qllm_response, whatever
\* the text.
extractOutputVariables_TextAsItIs(text) ==
  MapSet(exec(text, 1, Empty), "qllm_response", text)

\* extractOutputVariables of GoogleProvider
extractOutputVariables(text) ==
  LET variables == exec(text, 1, Empty)
  IN  IF Truthy(trim(text))
      THEN MapSet(variables, "qllm_response", trim(text))
      ELSE variables

\* x || 0, for a nullable number x
OrZero(x) == IF x # Null /\ x[1] # 0 THEN x[1] ELSE 0

\* The usage of OpenAIProvider.generateChatCompletion's result: each counter
\* is usage?.<counter> || 0.
OpenAIUsage(usage) ==
  [promptTokens |-> OrZero(IF usage = Null THEN Null ELSE usage[1].prompt_tokens),
   completionTokens |-> OrZero(IF usage = Null THEN Null ELSE usage[1].completion_tokens),
   totalTokens |-> OrZero(IF usage = Null THEN Null ELSE usage[1].total_tokens)]

\* An OpenAIProvider.generateEmbedding that takes an answer without
\* embeddings for a result.
EmbeddingResult_EmptyAccepted(response) ==
  IF response.data = Null
  THEN OpenAIhandleError(ErrorValue("Error", 0, "No embedding generated"))
  ELSE Resolved([embedding |-> IF response.data[1] = <<>> THEN <<>>
                               ELSE response.data[1][1].embedding,
                 embeddings |-> [i \in DOMAIN response.data[1] |->
                                   response.data[1][i].embedding]])

\* What OpenAIProvider.generateEmbedding makes of the backend's answer: data
\* is Null for an answer without data.
EmbeddingResult(response) ==
  IF response.data = Null \/ Len(response.data[1]) = 0
  THEN OpenAIhandleError(ErrorValue("Error", 0, "No embedding generated"))
  ELSE Resolved([embedding |-> response.data[1][1].embedding,
                 embeddings |-> [i \in DOMAIN response.data[1] |->
                                   response.data[1][i].embedding]])

\* What a non-streaming call ends in once the backend has answered.
Complete(req) ==
  LET b == req.backend
      model == ResolveModel(req)
  IN  CASE b.kind = "failure" /\ req.provider = "Google" ->
             GooglehandleError(SdkThrows("Google", b.failure))
        [] b.kind = "failure" -> handleError(req.provider, SdkThrows(req.provider, b.failure))
        [] req.provider = "OpenAI" /\ req.method = "generate" ->
             Resolved([model |-> model,
                       text |-> OrElse(b.response.content, ""),
                       finishReason |-> b.response.finishReason,
                       usage |-> Some(OpenAIUsage(b.response.usage))])
        [] req.provider = "Google" /\ req.method = "generate" ->
             Resolved([model |-> model,
                       text |-> OrElse(b.response.text, ""),
                       finishReason |-> Null,
                       usage |-> Null,
                       outputVariables |->
                         IF Truthy(OrElse(b.response.text, ""))
                         THEN Some(extractOutputVariables(OrElse(b.response.text, "")))
                         ELSE Null])
        [] req.provider = "Anthropic" /\ req.method = "generate" ->
             Resolved([text |-> OrElse(b.response.content, "")])
        [] req.provider = "OpenAI" /\ req.method = "embedding" ->
             EmbeddingResult(b.response)
        [] req.provider = "OpenAI" /\ req.method = "listModels" ->
             Resolved([models |-> b.response.models])

\* What the first pull of a stream finds once the backend has answered: the
\* call has failed, or there are chunks to yield.
Opened(req) ==
  LET b == req.backend
      model == ResolveModel(req)
  IN  CASE b.kind = "failure" /\ req.provider = "Google" ->
             [failed |-> TRUE, outcome |-> GooglehandleError(FetchThrows(b.failure)),
              chunks |-> <<>>]
        [] b.kind = "failure" ->
             [failed |-> TRUE,
              outcome |-> handleError(req.provider, SdkThrows(req.provider, b.failure)),
              chunks |-> <<>>]
        [] req.provider = "Google" ->
             IF b.response.text = Null \/ ~Truthy(b.response.text[1])
             THEN [failed |-> TRUE,
                   outcome |-> GooglehandleError(
                                 ErrorValue("Error", 0, "No text generated from the model")),
                   chunks |-> <<>>]
             ELSE [failed |-> FALSE, outcome |-> Resolved(Empty),
                   chunks |-> GoogleChunks(model, b.response)]
        [] req.provider = "OpenAI" ->
             [failed |-> FALSE, outcome |-> Resolved(Empty),
              chunks |-> OpenAIChunks(model, b.response.stream)]
        [] req.provider = "Anthropic" ->
             [failed |-> FALSE, outcome |-> Resolved(Empty),
              chunks |-> AnthropicChunks(b.response.stream)]

\* Backend answers to a chat request, per backend.  An OpenAI answer is the
\* message content of the non-streaming API and the chunks the streaming API
\* sends for it: the content in pieces, then the chunk with the finish reason.
OpenAIResponses ==
  {[content |-> Some("Hi there"), finishReason |-> Some("stop"),
    usage |-> Some([prompt_tokens |-> Some(3), completion_tokens |-> Some(2),
                    total_tokens |-> Some(5)]),
    stream |-> <<[content |-> Some(""), finish_reason |-> Null],
                 [content |-> Some("Hi"), finish_reason |-> Null],
                 [content |-> Some(" there"), finish_reason |-> Null],
                 [content |-> Null, finish_reason |-> Some("stop")]>>],
   [content |-> Null, finishReason |-> Some("length"),
    usage |-> Null,
    stream |-> <<[content |-> Null, finish_reason |-> Some("length")]>>]}

GoogleResponses ==
  {[text |-> Null, finishReason |-> Null],
   [text |-> Some(""), finishReason |-> Some("STOP")],
   [text |-> Some("Hi"), finishReason |-> Null],
   [text |-> Some("Hi  there"), finishReason |-> Some("MAX_TOKENS")],
   [text |-> Some(" a\nb "), finishReason |-> Some("")]}

AnthropicResponses ==
  {[content |-> Some("Hi there"),
    stream |-> <<[content |-> Some("Hi")], [content |-> Some(" there")]>>],
   [content |-> Null, stream |-> <<[content |-> Null]>>]}

ChatResponses(provider) ==
  CASE provider = "OpenAI" -> OpenAIResponses
    [] provider = "Google" -> GoogleResponses
    [] provider = "Anthropic" -> AnthropicResponses

\* options.model of a request: none, a model of Google's, one of nobody's.
RequestModels == {Null, Some("gemini-other"), Some("no-such-model")}

Adapters == {"OpenAI", "Google", "Anthropic"}

\* The call starts: a non-streaming call runs up to its backend request, a
\* streaming call returns the generator, which has not run yet.
Call(req) ==
  LET start == BeforeBackend(req)
  IN  /\ pc \in {"idle", "done", "failed"}
      /\ request' = req
      /\ pending' = <<>>
      /\ chunks' = <<>>
      /\ IF req.method = "stream"
         THEN /\ pc' = "created"
              /\ outcome' = Resolved(Empty)
              /\ backendCalls' = 0
              /\ sent' = Null
         ELSE IF start.settled
         THEN /\ pc' = IF start.outcome.error = "none" THEN "done" ELSE "failed"
              /\ outcome' = start.outcome
              /\ backendCalls' = 0
              /\ sent' = Null
         ELSE /\ pc' = "awaiting"
              /\ outcome' = Resolved(Empty)
              /\ backendCalls' = 1
              /\ sent' = Some(BackendRequest(req))
      /\ UNCHANGED <<reducerVars, storeVars, hostVars, googleVars>>

\* params.messages of a chat call
RequestMessages ==
  {<<[role |-> "user", text |-> "Hi"]>>,
   <<[role |-> "user", text |-> "Hi"], [role |-> "assistant", text |-> "Hello"],
     [role |-> "user", text |-> "Bye"]>>}

\* options.systemMessage of a chat call: absent, empty, a text
SystemMessages == {Null, Some(""), Some("Be brief")}

ChatCallStep ==
  \E provider \in Adapters, method \in {"generate", "stream"}, model \in RequestModels,
     messages \in RequestMessages, systemMessage \in SystemMessages :
    \/ \E r \in ChatResponses(provider) :
         Call([provider |-> provider, method |-> method, model |-> model,
               messages |-> messages, options |-> [systemMessage |-> systemMessage],
               backend |-> [kind |-> "response", response |-> r]])
    \/ \E f \in Failures :
         Call([provider |-> provider, method |-> method, model |-> model,
               messages |-> messages, options |-> [systemMessage |-> systemMessage],
               backend |-> [kind |-> "failure", failure |-> f]])

\* A streaming call whose backend stream breaks off after its first chunks.
BrokenStreamCallStep ==
  \E f \in {g \in Failures : g.kind = "network" \/ g.status = 429} :
    \/ \E r \in {q \in OpenAIResponses : Len(q.stream) > 1} :
         Call([provider |-> "OpenAI", method |-> "stream", model |-> Null,
               messages |-> <<[role |-> "user", text |-> "Hi"]>>,
               options |-> [systemMessage |-> Null],
               backend |-> [kind |-> "broken", failure |-> f,
                            response |-> [r EXCEPT !.stream = SubSeq(r.stream, 1, 2)]]])
    \/ \E r \in {q \in AnthropicResponses : Len(q.stream) > 1} :
         Call([provider |-> "Anthropic", method |-> "stream", model |-> Null,
               messages |-> <<[role |-> "user", text |-> "Hi"]>>,
               options |-> [systemMessage |-> Null],
               backend |-> [kind |-> "broken", failure |-> f,
                            response |-> [r EXCEPT !.stream = SubSeq(r.stream, 1, 1)]]])

EmbeddingCallStep ==
  \/ \E data \in {Null, Some(<<>>), Some(<<[embedding |-> <<1, 0>>]>>),
                   Some(<<[embedding |-> <<1, 0>>], [embedding |-> <<0, 1>>]>>)} :
       Call([provider |-> "OpenAI", method |-> "embedding", model |-> Null,
             backend |-> [kind |-> "response", response |-> [data |-> data]]])
  \/ \E f \in Failures :
       Call([provider |-> "OpenAI", method |-> "embedding", model |-> Null,
             backend |-> [kind |-> "failure", failure |-> f]])

ListModelsCallStep ==
  \/ Call([provider |-> "OpenAI", method |-> "listModels", model |-> Null,
           backend |-> [kind |-> "response", response |-> [models |-> {DEFAULT_MODEL}]]])
  \/ \E f \in Failures :
       Call([provider |-> "OpenAI", method |-> "listModels", model |-> Null,
             backend |-> [kind |-> "failure", failure |-> f]])
  \/ Call([provider |-> "Google", method |-> "listModels", model |-> Null,
           backend |-> [kind |-> "none"]])

\* The consumer's first pull runs the generator up to its backend request.
FirstPullStep ==
  LET start == BeforeBackend(request)
  IN  /\ pc = "created"
      /\ IF start.settled
         THEN /\ pc' = "failed"
              /\ outcome' = start.outcome
              /\ backendCalls' = backendCalls
              /\ sent' = sent
         ELSE /\ pc' = "awaiting"
              /\ outcome' = outcome
              /\ backendCalls' = backendCalls + 1
              /\ sent' = Some(BackendRequest(request))
      /\ UNCHANGED <<request, pending, chunks, reducerVars, storeVars, hostVars, googleVars>>

\* The backend answers: a non-streaming call ends; a streaming call fails,
\* or has its chunks to yield.
BackendAnswersStep ==
  /\ pc = "awaiting"
  /\ IF request.method = "stream"
     THEN LET opened == Opened(request)
          IN  /\ pc' = IF opened.failed THEN "failed" ELSE "yielding"
              /\ outcome' = opened.outcome
              /\ pending' = opened.chunks
     ELSE LET ended == Complete(request)
          IN  /\ pc' = IF ended.error = "none" THEN "done" ELSE "failed"
              /\ outcome' = ended
              /\ pending' = pending
  /\ UNCHANGED <<request, chunks, backendCalls, sent, reducerVars, storeVars, hostVars, googleVars>>

\* The consumer pulls: the generator yields its next chunk (GoogleProvider
\* then waits its 10 ms), or, out of chunks, returns; a backend stream that
\* broke off throws instead, into the adapter's catch.
PullStep ==
  /\ pc = "yielding"
  /\ IF pending # <<>>
     THEN /\ chunks' = Append(chunks, Head(pending))
          /\ pending' = Tail(pending)
          /\ UNCHANGED <<pc, outcome>>
     ELSE /\ IF request.backend.kind = "broken"
             THEN /\ pc' = "failed"
                  /\ outcome' = handleError(request.provider,
                                            SdkThrows(request.provider, request.backend.failure))
             ELSE /\ pc' = "done"
                  /\ outcome' = outcome
          /\ UNCHANGED <<pending, chunks>>
  /\ UNCHANGED <<request, backendCalls, sent, reducerVars, storeVars, hostVars, googleVars>>

NextLLM ==
  \/ ChatCallStep
  \/ BrokenStreamCallStep
  \/ EmbeddingCallStep
  \/ ListModelsCallStep
  \/ FirstPullStep
  \/ BackendAnswersStep
  \/ PullStep

SpecLLM == Init /\ [][NextLLM]_vars

\* The event loop runs a call that can run: the consumer keeps pulling, and
\* the backend request settles.
SpecLLMFair ==
  /\ SpecLLM
  /\ WF_vars(FirstPullStep)
  /\ WF_vars(BackendAnswersStep)
  /\ WF_vars(PullStep)

\* The pieces response texts are put together from: tags, values, blanks.
Tokens == {"<a>", "</a>", "<b>", "</b>", " x", " "}

RECURSIVE TextsOf(_)
TextsOf(n) ==
  IF n = 0 THEN {""}
  ELSE LET shorter == TextsOf(n - 1)
       IN  shorter \cup {text \o token : text \in shorter, token \in Tokens}

\* The texts a backend answers with.
ResponseTexts == TextsOf(MaxTokens)

\* One generateChatCompletion call of GoogleProvider that the backend answers
\* with a text.
GenerateTextStep ==
  /\ pc = "idle"
  /\ \E text \in ResponseTexts :
       Call([provider |-> "Google", method |-> "generate", model |-> Null,
             messages |-> <<[role |-> "user", text |-> "Hi"]>>,
             options |-> [systemMessage |-> Null],
             backend |-> [kind |-> "response",
                          response |-> [text |-> Some(text), finishReason |-> Null]]])

NextExtract ==
  \/ GenerateTextStep
  \/ BackendAnswersStep

SpecExtract == Init /\ [][NextExtract]_vars

----------------------------------------------------------------------------
\* Construction of the adapters, and the registry that hands them out.

\* !apiKey, for a credential that is absent (Null) or a string
Missing(apiKey) == apiKey = Null \/ ~Truthy(apiKey[1])

\* new OpenAIProvider(): the instance, or what the constructor throws.
NewOpenAIProvider(env) ==
  LET apiKey == env.OPENAI_API_KEY
  IN  IF Missing(apiKey)
      THEN Rejected("Error", "", "OpenAI API key not found in environment variables")
      ELSE Resolved([provider |-> "OpenAI", key |-> apiKey[1]])

\* new GoogleProvider(key): key ?? process.env.GOOGLE_API_KEY
NewGoogleProvider(key, env) ==
  LET apiKey == IF key # Null THEN key ELSE env.GOOGLE_API_KEY
  IN  IF Missing(apiKey)
      THEN Rejected("AuthenticationError", "Google", "Google API key GOOGLE_API_KEY is required")
      ELSE Resolved([provider |-> "Google", key |-> apiKey[1]])

\* new AnthropicProvider(credentials, region): the credentials are handed in.
NewAnthropicProvider(credentials) ==
  Resolved([provider |-> "Anthropic", key |-> credentials])

\* The values a credential takes: absent, empty, a key.
Credentials == {Null, Some(""), Some("sk-1")}

\* The environment the process runs in is set from outside.
SetEnvironmentStep ==
  /\ \E name \in DOMAIN environment, value \in Credentials :
       /\ environment[name] # value
       /\ environment' = [environment EXCEPT ![name] = value]
  /\ UNCHANGED <<constructed, registry, lookup, googleVars, reducerVars, storeVars, llmVars>>

\* The end of the GoogleProvider constructor: the catalogue is the static
\* one, and initializeModels is called and not waited for.
Constructed(made) ==
  IF made
  THEN availableModels' = ALL_GOOGLE_MODELS /\ refresh' = "pending"
  ELSE UNCHANGED googleVars

Construct(provider, key, credential, ended) ==
  /\ constructed' = [provider |-> provider, key |-> key, credential |-> credential,
                     error |-> ended.error, tag |-> ended.provider,
                     instance |-> IF ended.error = "none" THEN Some(ended.result) ELSE Null]
  /\ Constructed(provider = "Google" /\ ended.error = "none")
  /\ UNCHANGED <<environment, registry, lookup, reducerVars, storeVars, llmVars>>

ConstructStep ==
  \/ Construct("OpenAI", Null, environment.OPENAI_API_KEY, NewOpenAIProvider(environment))
  \/ \E key \in Credentials :
       Construct("Google", key, IF key # Null THEN key ELSE environment.GOOGLE_API_KEY,
                 NewGoogleProvider(key, environment))
  \/ Construct("Anthropic", Null, Some("aws-secret"), NewAnthropicProvider("aws-secret"))

\* What the factory registered for an adapter constructs.
Factory(adapter, env) ==
  CASE adapter = "OpenAI" -> NewOpenAIProvider(env)
    [] adapter = "Google" -> NewGoogleProvider(Null, env)
    [] adapter = "Anthropic" -> NewAnthropicProvider("aws-secret")

\* What the lookup of an unregistered name fails with.
NotFound(reg, name) ==
  [registry |-> reg, error |-> "Error",
   message |-> "Provider \"" \o name \o "\" not found.", instance |-> Null]

\* The lookup of a name: the registry afterwards, and the instance or the
\* error the caller gets.
Resolve(reg, name, env) ==
  IF reg[name].instance # Null
  THEN [registry |-> reg, error |-> "none", message |-> "", instance |-> reg[name].instance]
  ELSE LET made == Factory(reg[name].adapter, env)
       IN  IF made.error # "none"
           THEN [registry |-> reg, error |-> made.error, message |-> made.message,
                 instance |-> Null]
           ELSE [registry |-> [reg EXCEPT ![name].instance = Some(made.result)],
                 error |-> "none", message |-> "", instance |-> Some(made.result)]

\* A registry that looks names up without regard to case.
getLLMProvider_AnyCase(reg, name, env) ==
  LET lower == IF name = "OpenAI" THEN "openai" ELSE name
  IN  IF lower \notin DOMAIN reg THEN NotFound(reg, name) ELSE Resolve(reg, lower, env)

\* getLLMProvider(name): an unregistered name is not found; a registered one
\* gets the instance its factory constructs, which the registry keeps.
getLLMProvider(reg, name, env) ==
  IF name \notin DOMAIN reg THEN NotFound(reg, name) ELSE Resolve(reg, name, env)

\* The names callers look up: registered ones, one in another case, another.
LookupNames == {"openai", "google", "anthropic", "OpenAI", "invalid"}

GetLLMProviderStep ==
  \E name \in LookupNames :
    LET found == getLLMProvider(registry, name, environment)
    IN  /\ registry' = found.registry
        /\ lookup' = [name |-> name, error |-> found.error, message |-> found.message,
                      instance |-> found.instance]
        /\ Constructed(name = "google" /\ found.registry # registry)
        /\ UNCHANGED <<environment, constructed, reducerVars, storeVars, llmVars>>

\* What fetchGoogleModels resolves with: the backend's catalogue of the day.
FetchedCatalogues == {{DEFAULT_GOOGLE_MODEL, "gemini-new"}, {"gemini-new"}}

\* An initializeModels that leaves no catalogue when the fetch fails.
initializeModels_NoFallback(current, fetched) ==
  IF fetched = Null THEN {} ELSE fetched[1]

\* this.availableModels after initializeModels: the fetched catalogue, or,
\* the fetch having failed (Null), the one there was.
initializeModels(current, fetched) ==
  IF fetched = Null THEN current ELSE fetched[1]

\* The fetch of initializeModels settles.
RefreshSettlesStep ==
  /\ refresh = "pending"
  /\ \E fetched \in {Null} \cup {Some(c) : c \in FetchedCatalogues} :
       /\ availableModels' = initializeModels(availableModels, fetched)
       /\ refresh' = IF fetched = Null THEN "rejected" ELSE "resolved"
  /\ UNCHANGED <<hostVars, reducerVars, storeVars, llmVars>>

NextHost ==
  \/ SetEnvironmentStep
  \/ ConstructStep
  \/ GetLLMProviderStep
  \/ RefreshSettlesStep

SpecHost == Init /\ [][NextHost]_vars

\* A call of the GoogleProvider instance that was constructed.
GoogleCallStep ==
  /\ refresh # "idle"
  /\ \/ \E method \in {"generate", "stream"},
           model \in RequestModels \cup {Some("gemini-new"), Some("gemini-quota")} :
          Call([provider |-> "Google", method |-> method, model |-> model,
                messages |-> <<[role |-> "user", text |-> "Hi"]>>,
                options |-> [systemMessage |-> Null],
                backend |-> [kind |-> "response",
                             response |-> [text |-> Some("Hi"), finishReason |-> Null]]])
     \/ Call([provider |-> "Google", method |-> "listModels", model |-> Null,
              backend |-> [kind |-> "none"]])

NextRefresh ==
  \/ ConstructStep
  \/ RefreshSettlesStep
  \/ GoogleCallStep
  \/ FirstPullStep
  \/ BackendAnswersStep
  \/ PullStep

SpecRefresh == Init /\ [][NextRefresh]_vars

----------------------------------------------------------------------------
(* Vocabulary of the properties.  In a step, `state` is the mapping the     *)
(* reducer was called on, last' the action dispatched and state' the        *)
(* mapping the store holds afterwards.                                      *)

IdAddressed ==
  {"UPDATE_CONVERSATION", "ADD_MESSAGE", "SET_METADATA",
   "ADD_PROVIDER", "REMOVE_PROVIDER", "CLEAR_HISTORY"}

\* The conversation id an id-addressed or a DELETE action names.
TargetOf(action) ==
  IF action.type \in {"DELETE_CONVERSATION", "CLEAR_HISTORY"}
  THEN action.payload ELSE action.payload.id

\* The key whose entry a call may replace, insert or remove.
AddressedKey(action, env) ==
  CASE action.type = "CREATE_CONVERSATION" -> env.uuids[1]
    [] action.type = "IMPORT_CONVERSATION" ->
         IF action.payload.syntax = "json"
              /\ Prop(action.payload.doc, "id").kind = "string"
         THEN Prop(action.payload.doc, "id").val ELSE UnknownId
    [] OTHER -> TargetOf(action)

Succeeded(l, type) == l.action.type = type /\ l.error = "none"

----------------------------------------------------------------------------
\* C1: an UPDATE_CONVERSATION, ADD_MESSAGE, SET_METADATA, ADD_PROVIDER,
\* REMOVE_PROVIDER or CLEAR_HISTORY addressed to an id absent from the store
\* fails with ConversationNotFoundError, and the mapping after the failed
\* action equals the mapping before it.
C1_AbsentIdFailsFast ==
  [][(last'.action.type \in IdAddressed
        /\ TargetOf(last'.action) \notin DOMAIN state)
     => /\ last'.error = "ConversationNotFoundError"
        /\ state' = state
        /\ DOMAIN state' = DOMAIN state]_vars

C1_Witness ==
  /\ last.action.type = "CLEAR_HISTORY"
  /\ last.error = "ConversationNotFoundError"
  /\ state # Empty

\* C2: REMOVE_PROVIDER of a provider that is not active in an existing
\* conversation fails with InvalidConversationOperationError and leaves the
\* conversation's updatedAt, active providers and messages as they were.
C2_RemoveInactiveProviderFails ==
  [][(/\ last'.action.type = "REMOVE_PROVIDER"
      /\ last'.action.payload.id \in DOMAIN state
      /\ last'.action.payload.providerId
           \notin state[last'.action.payload.id].activeProviders)
     => LET id == last'.action.payload.id
        IN  /\ last'.error = "InvalidConversationOperationError"
            /\ id \in DOMAIN state'
            /\ state'[id].metadata.updatedAt = state[id].metadata.updatedAt
            /\ state'[id].activeProviders = state[id].activeProviders
            /\ state'[id].messages = state[id].messages]_vars

C2_Witness ==
  /\ last.action.type = "REMOVE_PROVIDER"
  /\ last.error = "InvalidConversationOperationError"
  /\ last.action.payload.id \in DOMAIN state
  /\ state[last.action.payload.id].activeProviders # {}
  /\ clock > state[last.action.payload.id].metadata.updatedAt

\* C3: a reducer call leaves its input mapping as it was, every entry the
\* action does not address is in the returned mapping unchanged, and the
\* id-addressed actions keep the key set.
C3_InputNeverMutated ==
  [][LET r == conversationReducer(state, last'.action, last'.env)
         key == AddressedKey(last'.action, last'.env)
     IN  /\ r.input = state
         /\ \A k \in DOMAIN state :
              k # key => k \in DOMAIN state' /\ state'[k] = state[k]
         /\ last'.action.type \in IdAddressed => DOMAIN state' = DOMAIN state]_vars

C3_Witness ==
  /\ Succeeded(last, "ADD_PROVIDER")
  /\ Cardinality(DOMAIN state) >= 2
  /\ \E k \in DOMAIN state : k # last.action.payload.id /\ state[k].messages # <<>>

----------------------------------------------------------------------------
\* C5: in every reachable store every conversation has
\* metadata.updatedAt >= metadata.createdAt, also after CREATE_CONVERSATION,
\* UPDATE_CONVERSATION and SET_METADATA whose payload metadata carries
\* createdAt or updatedAt.
C5_UpdatedAtNotBeforeCreatedAt ==
  \A k \in DOMAIN state :
    state[k].metadata.updatedAt >= state[k].metadata.createdAt

\* C6: in every reachable store the message ids of a conversation are
\* pairwise distinct and every one of them was returned by uuidv4() in the
\* reducer; no action lets a caller-chosen message id into the store.
C6_MessageIdsUniqueAndReducerAssigned ==
  \A k \in DOMAIN state :
    LET ms == state[k].messages
    IN  /\ \A i, j \in 1..Len(ms) : i # j => ms[i].id # ms[j].id
        /\ \A i \in 1..Len(ms) : ms[i].id \in Issued

\* C7: in every step the message sequence of a conversation that is in the
\* store before and after it is what it was, or ADD_MESSAGE on that
\* conversation appended one message to it, or CLEAR_HISTORY on that
\* conversation emptied it; whole conversations go only by
\* DELETE_CONVERSATION.
C7_MessageLifecycle ==
  [][/\ \A k \in (DOMAIN state) \cap (DOMAIN state') :
          LET old == state[k].messages
              new == state'[k].messages
          IN  \/ new = old
              \/ /\ Succeeded(last', "ADD_MESSAGE")
                 /\ TargetOf(last'.action) = k
                 /\ Len(new) = Len(old) + 1
                 /\ SubSeq(new, 1, Len(old)) = old
              \/ /\ Succeeded(last', "CLEAR_HISTORY")
                 /\ TargetOf(last'.action) = k
                 /\ new = <<>>
     /\ \A k \in (DOMAIN state) \ (DOMAIN state') :
          /\ Succeeded(last', "DELETE_CONVERSATION")
          /\ TargetOf(last'.action) = k]_vars

----------------------------------------------------------------------------
\* The metadata fields an action's payload supplies.
PayloadMetadata(action) ==
  CASE action.type = "SET_METADATA" -> action.payload.metadata
    [] action.type = "UPDATE_CONVERSATION"
         /\ "metadata" \in DOMAIN action.payload.updates ->
         action.payload.updates.metadata
    [] OTHER -> Empty

\* C8: every successful UPDATE_CONVERSATION, ADD_MESSAGE, SET_METADATA,
\* ADD_PROVIDER, REMOVE_PROVIDER and CLEAR_HISTORY sets the conversation's
\* updatedAt to the time the action read from the clock, whatever updatedAt
\* its payload carries, and leaves createdAt as it was unless the payload
\* supplies one.
C8_UpdatedAtRefreshed ==
  [][(last'.action.type \in IdAddressed /\ last'.error = "none")
     => LET id == TargetOf(last'.action)
            supplied == PayloadMetadata(last'.action)
            dates == last'.env.dates
        IN  /\ id \in DOMAIN state'
            /\ dates # <<>>
            /\ state'[id].metadata.updatedAt = dates[Len(dates)]
            /\ state'[id].metadata.updatedAt >= clock
            /\ state'[id].metadata.updatedAt = clock'
            /\ state'[id].metadata.createdAt =
                 IF "createdAt" \in DOMAIN supplied
                 THEN supplied.createdAt
                 ELSE state[id].metadata.createdAt]_vars

C8_Witness ==
  /\ Succeeded(last, "SET_METADATA")
  /\ "updatedAt" \in DOMAIN last.action.payload.metadata
  /\ state[last.action.payload.id].metadata.updatedAt
       > last.action.payload.metadata.updatedAt

\* C9: a successful ADD_MESSAGE leaves the previous messages in place and in
\* order and appends exactly one message with the payload's role, content
\* and providerId, an id fresh from uuidv4() and a timestamp read from the
\* clock; the active providers become the previous ones plus the message's
\* providerId; every metadata field but updatedAt keeps its value.
C9_AddMessageAppends ==
  [][Succeeded(last', "ADD_MESSAGE")
     => LET id == last'.action.payload.id
            m == last'.action.payload.message
            old == state[id]
            new == state'[id]
            added == new.messages[Len(new.messages)]
        IN  /\ Len(new.messages) = Len(old.messages) + 1
            /\ SubSeq(new.messages, 1, Len(old.messages)) = old.messages
            /\ added.role = m.role
            /\ added.content = m.content
            /\ added.providerId = m.providerId
            /\ added.id = last'.env.uuids[1]
            /\ added.id \notin Issued
            /\ added.id \notin {old.messages[i].id : i \in 1..Len(old.messages)}
            /\ added.id \notin DOMAIN state
            /\ added.timestamp = last'.env.dates[1]
            /\ added.timestamp >= clock
            /\ new.activeProviders = old.activeProviders \cup {m.providerId}
            /\ new.id = old.id
            /\ DOMAIN new.metadata = DOMAIN old.metadata
            /\ \A f \in (DOMAIN old.metadata) \ {"updatedAt"} :
                 new.metadata[f] = old.metadata[f]]_vars

C9_Witness ==
  /\ Succeeded(last, "ADD_MESSAGE")
  /\ "id" \in DOMAIN last.action.payload.message
  /\ Len(state[last.action.payload.id].messages) >= 2
  /\ state[last.action.payload.id].activeProviders = Providers

----------------------------------------------------------------------------
\* What CREATE_CONVERSATION does whatever its initial message: it returns, it
\* adds one entry under the fresh non-empty id uuidv4() gave and keeps every
\* other entry, the title is the payload's or "Conversation <id>", and the
\* active providers are the payload's provider ids.
CreatedEntry(payload, id) ==
  LET meta == IF "metadata" \in DOMAIN payload THEN payload.metadata ELSE Empty
      providerIds ==
        IF "providerIds" \in DOMAIN payload THEN payload.providerIds ELSE <<>>
  IN  /\ last'.error = "none"
      /\ id # ""
      /\ id \notin DOMAIN state
      /\ id \notin Issued
      /\ DOMAIN state' = (DOMAIN state) \cup {id}
      /\ \A k \in DOMAIN state : state'[k] = state[k]
      /\ state'[id].id = id
      /\ state'[id].metadata.title =
           IF "title" \in DOMAIN meta THEN meta.title ELSE "Conversation " \o id
      /\ state'[id].activeProviders = Range(providerIds)

\* The one synthetic message a created conversation starts with.
InitialMessageOnly(payload, id) ==
  LET providerIds ==
        IF "providerIds" \in DOMAIN payload THEN payload.providerIds ELSE <<>>
      ms == state'[id].messages
  IN  /\ Len(ms) = 1
      /\ ms[1].role = "user"
      /\ ms[1].content = [type |-> "text", text |-> payload.initialMessage]
      /\ ms[1].providerId = IF providerIds = <<>> THEN "" ELSE providerIds[1]

\* C10 as stated: CREATE_CONVERSATION never fails and adds exactly one
\* entry under a fresh id; the new conversation has no message when no
\* initial message is given and exactly one `user` message of the first
\* listed provider (or "") when one is given; title and active providers
\* come from the payload.
C10_CreateAsStated ==
  [][last'.action.type = "CREATE_CONVERSATION"
     => LET payload == last'.action.payload
            id == last'.env.uuids[1]
        IN  /\ CreatedEntry(payload, id)
            /\ IF "initialMessage" \in DOMAIN payload
               THEN InitialMessageOnly(payload, id)
               ELSE state'[id].messages = <<>>]_vars

\* C10, amended: as stated, but the one `user` message is there when a
\* non-empty initial message is given; an empty initial message string
\* counts as none and leaves the message sequence empty.
C10_CreateNonEmptyInitialMessage ==
  [][last'.action.type = "CREATE_CONVERSATION"
     => LET payload == last'.action.payload
            id == last'.env.uuids[1]
        IN  /\ CreatedEntry(payload, id)
            /\ IF "initialMessage" \in DOMAIN payload /\ payload.initialMessage # ""
               THEN InitialMessageOnly(payload, id)
               ELSE state'[id].messages = <<>>]_vars

C10_Witness ==
  /\ Succeeded(last, "CREATE_CONVERSATION")
  /\ Cardinality(DOMAIN state) >= 2
  /\ "initialMessage" \in DOMAIN last.action.payload
  /\ last.action.payload.initialMessage = ""
  /\ state[last.env.uuids[1]].messages = <<>>
  /\ state[last.env.uuids[1]].activeProviders = {"openai"}

----------------------------------------------------------------------------
\* C4 as stated: the same action applied to two equal input states gives two
\* equal output states (same ids, messages, metadata with its timestamps,
\* active providers).
C4_SameActionSameOutput ==
  last.action.type # "none" => alt.error = last.error /\ alt.state = state

\* The metadata fields a call fills from uuidv4() or new Date().
DrawnFields(action) ==
  IF action.type = "CREATE_CONVERSATION"
  THEN {"createdAt", "updatedAt", "title"}
         \ (IF "metadata" \in DOMAIN action.payload
            THEN DOMAIN action.payload.metadata ELSE {})
  ELSE {"updatedAt"}

\* Messages equal, but for the id and timestamp of the one a CREATE or an
\* ADD_MESSAGE call made.
SameMessages(ms1, ms2, action) ==
  /\ Len(ms1) = Len(ms2)
  /\ \A i \in 1..Len(ms1) :
       IF i = Len(ms1) /\ action.type \in {"CREATE_CONVERSATION", "ADD_MESSAGE"}
       THEN /\ DOMAIN ms1[i] = DOMAIN ms2[i]
            /\ \A f \in (DOMAIN ms1[i]) \ {"id", "timestamp"} : ms1[i][f] = ms2[i][f]
       ELSE ms1[i] = ms2[i]

SameUpToDrawn(c1, c2, action) ==
  /\ action.type # "CREATE_CONVERSATION" => c1.id = c2.id
  /\ c1.activeProviders = c2.activeProviders
  /\ SameMessages(c1.messages, c2.messages, action)
  /\ DOMAIN c1.metadata = DOMAIN c2.metadata
  /\ \A f \in (DOMAIN c1.metadata) \ DrawnFields(action) :
       c1.metadata[f] = c2.metadata[f]

\* C4, amended: the same action applied to two equal input states ends the
\* same way (the same error, or both calls return); the two outputs have the
\* same entries for every conversation the action does not address; the
\* addressed conversation is the same in both but for the values the call
\* draws from uuidv4() and new Date() (the id and default title of a created
\* conversation, the id and timestamp of a created message, createdAt and
\* updatedAt stamped from the clock); a call that draws no value gives equal
\* outputs.
C4_SameOutputUpToDrawnValues ==
  [][LET a == last'.action
         key1 == AddressedKey(a, last'.env)
         key2 == AddressedKey(a, alt'.env)
         out1 == state'
         out2 == alt'.state
     IN  /\ alt'.error = last'.error
         /\ (DOMAIN out1) \ {key1} = (DOMAIN out2) \ {key2}
         /\ \A k \in (DOMAIN out1) \ {key1} : out1[k] = out2[k]
         /\ key1 \in DOMAIN out1 <=> key2 \in DOMAIN out2
         /\ key1 \in DOMAIN out1 => SameUpToDrawn(out1[key1], out2[key2], a)
         /\ (last'.env.uuids = <<>> /\ last'.env.dates = <<>>) => out1 = out2]_vars

C4_Witness ==
  /\ Succeeded(last, "ADD_MESSAGE")
  /\ alt.error = "none"
  /\ alt.state # state
  /\ Cardinality(DOMAIN state) >= 1
  /\ alt.env.uuids # last.env.uuids
  /\ alt.env.dates # last.env.dates

----------------------------------------------------------------------------
(* IMPORT_CONVERSATION *)

\* text occurs in message
Contains(message, text) ==
  \E i \in 1..(Len(message) - Len(text) + 1) :
    SubSeq(message, i, i + Len(text) - 1) = text

\* The payload is JSON text for a structurally valid Conversation: a string
\* id, a sequence of messages, an object of metadata, and the active
\* providers as JSON can carry a set (an array, or the object a Set
\* serializes to).
SerializedConversation(text) ==
  /\ text.syntax = "json"
  /\ text.doc.kind = "object"
  /\ Prop(text.doc, "id").kind = "string"
  /\ Prop(text.doc, "messages").kind = "array"
  /\ Prop(text.doc, "metadata").kind = "object"
  /\ Prop(text.doc, "activeProviders").kind \in {"array", "object"}

\* C11: IMPORT_CONVERSATION with the JSON serialization of a structurally
\* valid Conversation succeeds; afterwards the imported id maps to the
\* imported conversation, whatever it mapped to before, and every other
\* entry is as it was.
C11_ImportValidConversationSucceeds ==
  [][(/\ last'.action.type = "IMPORT_CONVERSATION"
      /\ SerializedConversation(last'.action.payload))
     => LET doc == last'.action.payload.doc
            id == Prop(doc, "id").val
        IN  /\ last'.error = "none"
            /\ DOMAIN state' = DOMAIN state \cup {id}
            /\ state'[id].id = id
            /\ state'[id].messages = Prop(doc, "messages").val
            /\ state'[id].metadata = Prop(doc, "metadata").val
            /\ \A k \in DOMAIN state \ {id} : state'[k] = state[k]]_vars

\* The payload is no JSON, or the value it denotes lacks a string id, a
\* message sequence, an object metadata or an active-provider Set.
NotImportable(text) ==
  \/ text.syntax = "malformed"
  \/ /\ text.syntax = "json"
     /\ \/ text.doc.kind # "object"
        \/ Prop(text.doc, "id").kind # "string"
        \/ Prop(text.doc, "messages").kind # "array"
        \/ Prop(text.doc, "metadata").kind # "object"
        \/ Prop(text.doc, "activeProviders").kind # "Set"

\* C12: IMPORT_CONVERSATION with a payload that is not parseable JSON, or
\* that parses to a value lacking a string id, a message sequence, an object
\* metadata or an active-provider set, fails with ConversationError whose
\* message contains "Failed to import conversation", with no other error
\* kind, and the store keeps the mapping it had.
C12_ImportFailureIsConversationError ==
  [][(/\ last'.action.type = "IMPORT_CONVERSATION"
      /\ NotImportable(last'.action.payload))
     => LET r == conversationReducer(state, last'.action, last'.env)
        IN  /\ last'.error = "ConversationError"
            /\ r.error = "ConversationError"
            /\ Contains(r.message, "Failed to import conversation")
            /\ state' = state]_vars

\* A payload missing `metadata` was refused on a store holding a
\* conversation with a message.
C12_Witness ==
  /\ last.action.type = "IMPORT_CONVERSATION"
  /\ last.error = "ConversationError"
  /\ last.action.payload.syntax = "json"
  /\ last.action.payload.doc.kind = "object"
  /\ Prop(last.action.payload.doc, "id").kind = "string"
  /\ Prop(last.action.payload.doc, "metadata").kind = "undefined"
  /\ \E k \in DOMAIN state : state[k].messages # <<>>

\* C13: for every conversation in the store, importing its JSON
\* serialization into the same store and into an empty store succeeds and
\* stores a conversation with the same id, messages and metadata and the
\* same set of active providers.
C13_ExportImportRoundTrip ==
  [][\A id \in DOMAIN state :
       (/\ last'.action.type = "IMPORT_CONVERSATION"
        /\ last'.action.payload = JSONstringify(state[id]))
       => /\ last'.error = "none"
          /\ alt'.error = "none"
          /\ \A store \in {state', alt'.state} :
                /\ state[id].id \in DOMAIN store
                /\ store[state[id].id].id = state[id].id
                /\ store[state[id].id].messages = state[id].messages
                /\ store[state[id].id].metadata = state[id].metadata
                /\ store[state[id].id].activeProviders = state[id].activeProviders]_vars

----------------------------------------------------------------------------
(* Serialized dispatch *)

\* The mapping the store holds once n actions are applied.
Mapping(n) == IF n = 0 THEN Empty ELSE applied[n].snapshot

\* The n-th dispatched action applied to the mapping the first n - 1 left,
\* with the draws its call had.
Sequential(n) ==
  LET r == conversationReducer(Mapping(n - 1), dispatched[n].action, applied[n].env)
  IN  IF r.error = "none" THEN r.state ELSE Mapping(n - 1)

\* C14: with callers dispatching concurrently and the store applying one
\* action at a time, the mappings the store holds one after another are
\* those of applying the dispatched actions one after another in dispatch
\* order, each to the mapping the one before it left: no action is skipped,
\* a failed action leaves the mapping of the action before it, and every
\* snapshot a reader took is one of these mappings, later snapshots being
\* those of later actions.
C14_SnapshotsFollowDispatchOrder ==
  /\ Len(applied) + Len(queue) = Len(dispatched)
  /\ state = Mapping(Len(applied))
  /\ \A n \in DOMAIN applied :
       /\ Mapping(n) = Sequential(n)
       /\ applied[n].error # "none" => Mapping(n) = Mapping(n - 1)
  /\ \A i \in DOMAIN seen : seen[i].snapshot = Mapping(seen[i].at)
  /\ \A i, j \in DOMAIN seen : i <= j => seen[i].at <= seen[j].at

\* Both callers dispatched, an action failed between two that succeeded,
\* and the reader holds two different snapshots.
C14_Witness ==
  /\ {dispatched[n].caller : n \in DOMAIN dispatched} = Callers
  /\ Len(applied) = 3
  /\ applied[1].error = "none"
  /\ applied[2].error # "none"
  /\ applied[3].error = "none"
  /\ Len(seen) = 2
  /\ seen[1].snapshot # seen[2].snapshot
  /\ seen[1].snapshot # Empty

----------------------------------------------------------------------------
(* Provider adapters *)

ProviderErrors == {"AuthenticationError", "RateLimitError", "InvalidRequestError"}

\* The call in progress is a chat call (complete or stream) that has ended
\* in an error after its backend request failed.
BackendFailed ==
  /\ pc = "failed"
  /\ request.method \in {"generate", "stream"}
  /\ backendCalls = 1
  /\ request.backend.kind \in {"failure", "broken"}

\* C15: whatever fails inside generateChatCompletion, streamChatCompletion,
\* generateEmbedding or listModels of an adapter, the error its caller gets
\* is an AuthenticationError, a RateLimitError or an InvalidRequestError
\* tagged with the adapter's provider name.
C15_ErrorsAreNormalized ==
  pc = "failed" =>
    /\ outcome.error \in ProviderErrors
    /\ outcome.provider = request.provider

\* C16: a chat call, streaming or not, whose backend answers 401 ends in an
\* AuthenticationError tagged with the adapter's provider name.
C16_UnauthorizedIsAuthenticationError ==
  (BackendFailed /\ request.backend.failure.status = 401) =>
    /\ outcome.error = "AuthenticationError"
    /\ outcome.provider = request.provider

\* C17: a chat call whose backend throttles (429) ends in a RateLimitError
\* tagged with the adapter's provider name, and one whose backend fails
\* with neither 401 nor 429 ends in neither an AuthenticationError nor a
\* RateLimitError.
C17_ThrottlingIsRateLimitError ==
  /\ (BackendFailed /\ request.backend.failure.status = 429) =>
       /\ outcome.error = "RateLimitError"
       /\ outcome.provider = request.provider
  /\ (BackendFailed /\ request.backend.failure.status \notin {401, 429}) =>
       outcome.error \notin {"AuthenticationError", "RateLimitError"}

\* The call in progress is a streamChatCompletion of OpenAI or Google.
ChatStream ==
  /\ request.provider \in {"OpenAI", "Google"}
  /\ request.method = "stream"

\* C18: the chunks of a stream reach the consumer in the order the stream
\* has them; every chunk before the last one received has a null
\* finishReason, nothing remains to be yielded once a chunk with a non-null
\* finishReason is received, and a stream that has ended without an error
\* has ended with such a chunk.
C18_StreamEndsAtFirstFinishReason ==
  ChatStream =>
    /\ \A i \in 1..(Len(chunks) - 1) : chunks[i].finishReason = Null
    /\ (chunks # <<>> /\ chunks[Len(chunks)].finishReason # Null) => pending = <<>>
    /\ pc = "done" => (chunks # <<>> /\ chunks[Len(chunks)].finishReason # Null)
    /\ pc \in {"yielding", "done"} => chunks \o pending = Opened(request).chunks

\* An OpenAI stream of four chunks has ended, the last chunk the one with
\* the finish reason.
C18_Witness ==
  /\ ChatStream
  /\ request.provider = "OpenAI"
  /\ pc = "done"
  /\ Len(chunks) = 4
  /\ chunks[4].finishReason = Some("stop")
  /\ chunks[2].text = Some("Hi")

\* The call in progress is a streamChatCompletion of Google.
GoogleStream ==
  /\ request.provider = "Google"
  /\ request.method = "stream"

\* The consumer has received a chunk with a non-null finishReason.
TerminalReceived ==
  /\ GoogleStream
  /\ chunks # <<>>
  /\ chunks[Len(chunks)].finishReason # Null

RECURSIVE ConcatText(_)
ConcatText(cs) ==
  IF cs = <<>> THEN ""
  ELSE (IF Head(cs).text = Null THEN "" ELSE Head(cs).text[1]) \o ConcatText(Tail(cs))

\* What generateChatCompletion ends in for the backend answer of the
\* streaming call in progress.
NonStreaming == Complete([request EXCEPT !.method = "generate"])

\* C20: for every backend response, when the non-streaming call returns a
\* text the streaming call does not fail, and the non-null text fragments
\* of the stream consumed to its end, concatenated in order, are that text.
C20_StreamTextIsNonStreamingText ==
  (/\ ChatStream
   /\ request.backend.kind = "response"
   /\ backendCalls = 1
   /\ pc \in {"done", "failed"}
   /\ NonStreaming.error = "none")
  => /\ pc = "done"
     /\ ConcatText(chunks) = NonStreaming.result.text

\* What generateChatCompletion ends in for the backend failure of the
\* streaming call in progress.
NonStreamingFailure ==
  Complete([request EXCEPT !.method = "generate",
                           !.backend = [kind |-> "failure",
                                        failure |-> request.backend.failure]])

\* C21: a streaming call that a backend failure ends, before its first
\* chunk or after some chunks, ends in the error kind and with the provider
\* tag that the non-streaming call of the same adapter ends in for the same
\* backend failure.
C21_StreamErrorsClassifiedAsNonStreaming ==
  (/\ pc = "failed"
   /\ request.method = "stream"
   /\ backendCalls = 1
   /\ request.backend.kind \in {"failure", "broken"})
  => /\ outcome.error = NonStreamingFailure.error
     /\ outcome.provider = NonStreamingFailure.provider

\* A Google stream failed before its first chunk on a 429 that names the
\* quota, as a RateLimitError.
C21_Witness ==
  /\ pc = "failed"
  /\ request.method = "stream"
  /\ request.provider = "Google"
  /\ backendCalls = 1
  /\ request.backend.kind = "failure"
  /\ request.backend.failure.status = 429
  /\ outcome.error = "RateLimitError"
  /\ chunks = <<>>

\* A chat call that has made its backend request.
ChatRequestSent ==
  /\ request.provider \in Adapters
  /\ request.method \in {"generate", "stream"}
  /\ backendCalls = 1
  /\ sent # Null

\* The request's messages as role and text, in the request's order.
RequestTexts == [i \in DOMAIN request.messages |-> request.messages[i].text]

\* The backend request carries the system text: as its leading message with
\* role system, the request's messages after it in their order, or in the
\* backend's own system instruction with the request's messages as they are.
CarriesSystemMessage(wire, text) ==
  \/ /\ wire.messages # <<>>
     /\ wire.messages[1] = [role |-> "system", text |-> text]
     /\ [i \in DOMAIN Tail(wire.messages) |-> Tail(wire.messages)[i].text] = RequestTexts
  \/ /\ wire.system = Some(text)
     /\ [i \in DOMAIN wire.messages |-> wire.messages[i].text] = RequestTexts

\* The backend request carries the request's messages and nothing else.
CarriesMessagesOnly(wire) ==
  /\ wire.system \in {Null, Some("")}
  /\ \/ /\ wire.prompt = Null
        /\ [i \in DOMAIN wire.messages |-> wire.messages[i].text] = RequestTexts
     \/ /\ wire.prompt = Some(convertMessagesToPrompt(request.messages))
        /\ wire.messages = <<>>

\* C22: the backend request of every chat call, streaming or not, of every
\* adapter carries a non-empty options.systemMessage, as a leading system
\* message before the request's messages or in the backend's own system
\* instruction; without one, it carries the request's messages unchanged.
C22_SystemMessageReachesBackend ==
  ChatRequestSent
  => IF request.options.systemMessage # Null /\ request.options.systemMessage[1] # ""
     THEN CarriesSystemMessage(sent[1], request.options.systemMessage[1])
     ELSE CarriesMessagesOnly(sent[1])

\* A generateChatCompletion call has returned its result.
GenerateReturned ==
  /\ request.provider \in {"OpenAI", "Google"}
  /\ request.method = "generate"
  /\ pc = "done"

\* C23: the result of every generateChatCompletion call that returns has a
\* non-empty model, the requested one or the adapter's default, and a usage
\* whose three counters are present and not negative, all zero when the
\* backend reported none.
C23_ResultHasModelAndUsage ==
  GenerateReturned
  => /\ outcome.result.model # ""
     /\ outcome.result.model = ResolveModel(request)
     /\ outcome.result.usage # Null
     /\ LET usage == outcome.result.usage[1]
        IN  /\ DOMAIN usage = {"promptTokens", "completionTokens", "totalTokens"}
            /\ \A counter \in DOMAIN usage : usage[counter] \in Nat
            /\ request.backend.response.usage = Null
               => \A counter \in DOMAIN usage : usage[counter] = 0

\* A generateEmbedding call that the backend has answered has ended.
EmbeddingAnswered ==
  /\ request.provider = "OpenAI"
  /\ request.method = "embedding"
  /\ request.backend.kind = "response"
  /\ pc \in {"done", "failed"}

\* C24: generateEmbedding fails with an InvalidRequestError tagged OpenAI
\* when the backend answers with no data or with zero embeddings; with one
\* embedding or more it returns the first vector as embedding and all the
\* vectors, in the backend's order, as embeddings.
C24_EmbeddingResultOrInvalidRequest ==
  EmbeddingAnswered
  => LET data == request.backend.response.data
     IN  IF data = Null \/ data[1] = <<>>
         THEN /\ pc = "failed"
              /\ outcome.error = "InvalidRequestError"
              /\ outcome.provider = "OpenAI"
         ELSE /\ pc = "done"
              /\ outcome.error = "none"
              /\ outcome.result.embedding = data[1][1].embedding
              /\ Len(outcome.result.embeddings) = Len(data[1])
              /\ \A i \in DOMAIN data[1] :
                   outcome.result.embeddings[i] = data[1][i].embedding

\* A generateEmbedding call has failed on an answer with zero embeddings.
C24_Witness ==
  /\ EmbeddingAnswered
  /\ request.backend.response.data = Some(<<>>)
  /\ pc = "failed"
  /\ outcome.error = "InvalidRequestError"

\* C25: constructing an adapter that reads its credential from the
\* environment (OpenAIProvider, GoogleProvider) fails with an
\* AuthenticationError when the credential is absent or empty, and no instance
\* that lacks a credential is ever obtained.
C25_MissingCredentialIsAuthenticationError ==
  /\ constructed.provider \in {"OpenAI", "Google"}
     => /\ Missing(constructed.credential)
           => /\ constructed.error = "AuthenticationError"
              /\ constructed.instance = Null
        /\ constructed.instance # Null => Truthy(constructed.instance[1].key)
  /\ \A name \in DOMAIN registry :
       registry[name].instance # Null => Truthy(registry[name].instance[1].key)

\* What a lookup that is not found fails with.
NotFoundMessage(name) == "Provider \"" \o name \o "\" not found."

\* C26 as stated: a lookup of an unregistered name, in the case it is written
\* in, fails with the message Provider "<name>" not found.; a lookup of a
\* registered name returns the instance of the adapter registered for it; no
\* lookup changes the registered names.
C26_LookupAsStated ==
  [][lookup' # lookup
     => /\ DOMAIN registry' = DOMAIN registry
        /\ IF lookup'.name \notin DOMAIN registry
           THEN /\ lookup'.error # "none"
                /\ lookup'.message = NotFoundMessage(lookup'.name)
           ELSE /\ lookup'.error = "none"
                /\ lookup'.instance # Null
                /\ lookup'.instance[1].provider = registry[lookup'.name].adapter]_vars

\* The adapter registered for a name can be obtained: the registry holds its
\* instance, or its constructor has the credential it needs.
Obtainable(name) ==
  \/ registry[name].instance # Null
  \/ Factory(registry[name].adapter, environment).error = "none"

\* C26, amended: a lookup of a registered name returns the instance of the
\* adapter registered for it when the registry holds that instance or the
\* adapter can be constructed, and fails with what the adapter's constructor
\* throws otherwise; unregistered names and the registered names are as
\* stated.
C26_LookupReturnsObtainableInstance ==
  [][lookup' # lookup
     => /\ DOMAIN registry' = DOMAIN registry
        /\ IF lookup'.name \notin DOMAIN registry
           THEN /\ lookup'.error # "none"
                /\ lookup'.message = NotFoundMessage(lookup'.name)
           ELSE IF Obtainable(lookup'.name)
           THEN /\ lookup'.error = "none"
                /\ lookup'.instance # Null
                /\ lookup'.instance[1].provider = registry[lookup'.name].adapter
           ELSE /\ lookup'.error = Factory(registry[lookup'.name].adapter, environment).error
                /\ lookup'.message # NotFoundMessage(lookup'.name)
                /\ lookup'.instance = Null]_vars

\* A lookup of OpenAI, which is registered as openai, was not found, after a
\* lookup of openai had returned the OpenAIProvider instance.
C26_Witness ==
  /\ lookup.name = "OpenAI"
  /\ lookup.message = "Provider \"OpenAI\" not found."
  /\ registry["openai"].instance # Null
  /\ registry["openai"].instance[1].provider = "OpenAI"

\* C27: a successful UPDATE_CONVERSATION leaves the entry under its key with
\* every top-level field of the updates in place of the conversation's and
\* every other top-level field as it was; its metadata has every field of the
\* updates' metadata in place of the conversation's, every other field as it
\* was, and updatedAt set to the time read from the clock.
C27_UpdateShallowMerges ==
  [][Succeeded(last', "UPDATE_CONVERSATION")
     => LET id == last'.action.payload.id
            updates == last'.action.payload.updates
            supplied == PayloadMetadata(last'.action)
            dates == last'.env.dates
        IN  /\ DOMAIN state' = DOMAIN state
            /\ DOMAIN state'[id] = DOMAIN state[id] \cup DOMAIN updates \cup {"metadata"}
            /\ \A field \in DOMAIN state'[id] \ {"metadata"} :
                 state'[id][field] = IF field \in DOMAIN updates
                                     THEN updates[field] ELSE state[id][field]
            /\ DOMAIN state'[id].metadata =
                 DOMAIN state[id].metadata \cup DOMAIN supplied \cup {"updatedAt"}
            /\ \A field \in DOMAIN state'[id].metadata \ {"updatedAt"} :
                 state'[id].metadata[field] = IF field \in DOMAIN supplied
                                              THEN supplied[field]
                                              ELSE state[id].metadata[field]
            /\ state'[id].metadata.updatedAt = dates[Len(dates)]]_vars

\* An update of the title alone has kept the other metadata fields and the
\* messages of a conversation that has a message.
C27_Witness ==
  /\ Succeeded(last, "UPDATE_CONVERSATION")
  /\ "metadata" \in DOMAIN last.action.payload.updates
  /\ "title" \in DOMAIN last.action.payload.updates.metadata
  /\ LET c == state[last.action.payload.id]
     IN  /\ c.metadata.title = last.action.payload.updates.metadata.title
         /\ "createdAt" \in DOMAIN c.metadata
         /\ c.messages # <<>>

\* C28: DELETE_CONVERSATION never fails: it returns the mapping without the
\* entry of its id, the other entries as they were, which for an absent id is
\* a mapping equal to the one it was given.  An id-addressed action on an id
\* that was issued and is not in the mapping, among them every deleted id,
\* fails with ConversationNotFoundError, and such an id comes back into the
\* mapping by a successful IMPORT_CONVERSATION only.
C28_DeleteRemovesUntilImport ==
  [][/\ last'.action.type = "DELETE_CONVERSATION"
        => LET id == last'.action.payload
           IN  /\ last'.error = "none"
               /\ DOMAIN state' = DOMAIN state \ {id}
               /\ \A k \in DOMAIN state' : state'[k] = state[k]
               /\ id \notin DOMAIN state => state' = state
     /\ (last'.action.type \in IdAddressed
           /\ TargetOf(last'.action) \in Issued \ DOMAIN state)
        => /\ last'.error = "ConversationNotFoundError"
           /\ state' = state
     /\ \A k \in (DOMAIN state' \ DOMAIN state) \cap Issued :
          Succeeded(last', "IMPORT_CONVERSATION")]_vars

\* The first conversation created has been deleted, and an id-addressed
\* action on its id has failed while another conversation is in the mapping.
C28_Witness ==
  /\ nextUuid > 1
  /\ uuidv4(1) \notin DOMAIN state
  /\ last.action.type \in IdAddressed
  /\ TargetOf(last.action) = uuidv4(1)
  /\ last.error = "ConversationNotFoundError"

\* C29: ADD_PROVIDER on a conversation of the mapping never fails and leaves
\* the active providers as the previous ones and the payload's provider, so
\* that on a provider that is active already, as in a second ADD_PROVIDER of
\* it, the set stays as it was; the messages stay as they were.
C29_AddProviderIdempotent ==
  [][(last'.action.type = "ADD_PROVIDER" /\ last'.action.payload.id \in DOMAIN state)
     => LET id == last'.action.payload.id
            providerId == last'.action.payload.providerId
        IN  /\ last'.error = "none"
            /\ state'[id].activeProviders = state[id].activeProviders \cup {providerId}
            /\ providerId \in state[id].activeProviders
               => state'[id].activeProviders = state[id].activeProviders
            /\ state'[id].messages = state[id].messages]_vars

\* An ADD_PROVIDER, right after the conversation was created with an initial
\* message of that provider, has succeeded on a provider that was active.
C29_Witness ==
  /\ steps = 2
  /\ Succeeded(last, "ADD_PROVIDER")
  /\ LET c == state[last.action.payload.id]
     IN  /\ c.messages # <<>>
         /\ c.messages[1].providerId = last.action.payload.providerId
         /\ last.action.payload.providerId \in c.activeProviders

\* C30: a successful CLEAR_HISTORY leaves the conversation with no messages
\* and updatedAt set to the time read from the clock, and its id, its active
\* providers and every other metadata field as they were.
C30_ClearHistoryFrame ==
  [][Succeeded(last', "CLEAR_HISTORY")
     => LET id == last'.action.payload
            dates == last'.env.dates
        IN  /\ state'[id].messages = <<>>
            /\ state'[id].metadata.updatedAt = dates[Len(dates)]
            /\ state'[id].id = state[id].id
            /\ state'[id].activeProviders = state[id].activeProviders
            /\ DOMAIN state'[id] = DOMAIN state[id]
            /\ DOMAIN state'[id].metadata = DOMAIN state[id].metadata \cup {"updatedAt"}
            /\ \A field \in DOMAIN state[id].metadata \ {"updatedAt"} :
                 state'[id].metadata[field] = state[id].metadata[field]]_vars

\* The history of a conversation with active providers and a title, made
\* with an initial message, has been cleared.
C30_Witness ==
  /\ steps = 2
  /\ Succeeded(last, "CLEAR_HISTORY")
  /\ LET c == state[last.action.payload]
     IN  /\ c.messages = <<>>
         /\ c.activeProviders # {}
         /\ "title" \in DOMAIN c.metadata
         /\ c.metadata.updatedAt > c.metadata.createdAt

\* A generateChatCompletion call of GoogleProvider has returned the
\* variables extracted from a response text.
VariablesExtracted ==
  /\ request.provider = "Google"
  /\ request.method = "generate"
  /\ pc = "done"
  /\ outcome.result.outputVariables # Null

ResponseText == request.backend.response.text[1]

\* The indices of a text where <name>value</name> occurs, and its name.
Occurrences(text) == {i \in 1..Len(text) : MatchAt(text, i).found}

\* The variables of a text for the occurrences at the indices `at`: each
\* name with the trimmed value of its last occurrence among them.
VariablesAt(text, at) ==
  LET names == {MatchAt(text, i).name : i \in at}
      lastOf(name) == CHOOSE i \in at :
                      /\ MatchAt(text, i).name = name
                      /\ \A k \in at : MatchAt(text, k).name = name => k <= i
  IN  [name \in names |-> trim(MatchAt(text, lastOf(name)).value)]

\* C31 as stated: the variables extracted from a response text are, for
\* each tag name that occurs as <name>value</name>, the trimmed value of its
\* last occurrence, and the trimmed text as qllm_response.
C31_ExtractionAsStated ==
  VariablesExtracted
  => outcome.result.outputVariables[1] =
       MapSet(VariablesAt(ResponseText, Occurrences(ResponseText)),
              "qllm_response", trim(ResponseText))

\* The occurrences a scan from the left finds that goes on after the end of
\* each one it finds: those that begin in none of the others it finds.
Scanned(text) ==
  CHOOSE found \in SUBSET Occurrences(text) :
    \A i \in Occurrences(text) :
      i \in found <=> ~\E k \in found : k < i /\ i < MatchAt(text, k).lastIndex

\* C31, amended: the variables extracted from a response text are, for each
\* tag name of an occurrence of <name>value</name> that begins inside no
\* other extracted occurrence, the trimmed value of the last such occurrence
\* of the name, and the trimmed text as qllm_response unless the text is
\* blank.
C31_ExtractionOfScannedTags ==
  VariablesExtracted
  => LET tags == VariablesAt(ResponseText, Scanned(ResponseText))
     IN  outcome.result.outputVariables[1] =
           IF trim(ResponseText) = "" THEN tags
           ELSE MapSet(tags, "qllm_response", trim(ResponseText))

\* The variables of a text with one tag inside another: the outer tag has
\* the inner one in its value, the inner tag is no variable.
C31_Witness ==
  /\ VariablesExtracted
  /\ ResponseText = "<a><b> x</b></a>"
  /\ outcome.result.outputVariables[1] =
       [name \in {"a", "qllm_response"} |->
          IF name = "a" THEN "<b> x</b>" ELSE "<a><b> x</b></a>"]

\* C32: the GoogleProvider constructor, given a credential, returns the
\* instance with the static catalogue while the refresh it started is
\* pending; from then on the catalogue is the static one until the refresh
\* resolves, one fetched catalogue as a whole once it has, and the static
\* one for good when it fails, and a listModels call answers with one of
\* these catalogues, whenever it runs.
C32_CatalogueStaticOrFetched ==
  /\ [](/\ refresh \in {"idle", "pending", "rejected"} => availableModels = ALL_GOOGLE_MODELS
        /\ refresh = "resolved" => availableModels \in FetchedCatalogues
        /\ (request.provider = "Google" /\ request.method = "listModels" /\ pc = "done")
           => outcome.result.models \in {ALL_GOOGLE_MODELS} \cup FetchedCatalogues)
  /\ [][/\ (constructed' # constructed /\ constructed'.provider = "Google"
              /\ ~Missing(constructed'.credential))
           => /\ constructed'.error = "none"
              /\ refresh' = "pending"
              /\ availableModels' = ALL_GOOGLE_MODELS
        /\ availableModels' # availableModels
           => \/ refresh = "pending" /\ availableModels' \in FetchedCatalogues
              \/ refresh' = "pending" /\ availableModels' = ALL_GOOGLE_MODELS]_vars

\* A stream on the default model has failed at its first pull without a
\* backend request: the refresh had resolved with a catalogue that lacks
\* the default model.
C32_Witness ==
  /\ refresh = "resolved"
  /\ availableModels = {"gemini-new"}
  /\ request.provider = "Google"
  /\ request.method = "stream"
  /\ request.model = Null
  /\ pc = "failed"
  /\ backendCalls = 0

\* C33: a generateChatCompletion or streamChatCompletion call of
\* GoogleProvider for a model that is not in the catalogue fails with an
\* InvalidRequestError tagged Google, without a backend request and without a
\* chunk: so ends the step in which the call looks its model up, the call
\* itself or, for a stream, its first pull.
C33_UnsupportedModelIsInvalidRequest ==
  [][(/\ request'.provider = "Google"
      /\ request'.method \in {"generate", "stream"}
      /\ \/ pc = "created" /\ pc' # "created"
         \/ /\ request'.method = "generate"
            /\ pc \in {"idle", "done", "failed"}
            /\ request' # request \/ pc' # pc
      /\ ResolveModel(request') \notin availableModels)
     => /\ pc' = "failed"
        /\ outcome'.error = "InvalidRequestError"
        /\ outcome'.provider = "Google"
        /\ backendCalls' = 0
        /\ chunks' = <<>>]_vars

\* C34: in every mapping the store reaches from the empty one, the key of
\* each entry is the id of the conversation stored under it.
C34_KeyIsConversationId ==
  \A key \in DOMAIN state : state[key].id = key

====
